---- MODULE Spec2Model ----
(***************************************************************************)
(* The catalog-based cache of yes3: Cache and CatalogCache of              *)
(* caching/base.py and LocalDiskCache of caching/local.py, over a model of *)
(* the cache directory.  Every method is an operator from a state          *)
(* S = [c |-> the instance's fields, d |-> the directory] to a result      *)
(* [S |-> the state it leaves, out |-> "ok" or the exception raised,       *)
(* ret |-> the value returned]; an exception leaves the state as it was at *)
(* the raise.                                                              *)
(***************************************************************************)
EXTENDS Integers, Sequences, FiniteSets, TLC

\* ------------------------------------------------------------ values ----
\* The objects a caller stores are 1..NumObjects.
NumObjects == 2

Objects == 1..NumObjects

\* Python's None (the value _get returns after an EOFError, a default).
None == 0

\* The "no default given" sentinel.
UNSPECIFIED == -1

\* The content of a file on which pickle.load raises EOFError.
Truncated == -2

\* An object that pickle.dump cannot serialize (a lambda).
Unpicklable == -3

Defaults == {UNSPECIFIED, None} \cup Objects

\* -------------------------------------------------------- keys, paths ----
\* A key or a relative path is a name followed by its dot-suffixes:
\* "a.pkl" is [name |-> "a", exts |-> <<".pkl">>].
Key(n, e) == [name |-> n, exts |-> e]

\* PickleSerializer.ext
ext == ".pkl"

\* The keys the callers use.
Keys == {Key("a", <<>>), Key("a", <<ext>>), Key("b", <<>>)}

\* The key field of an operation that takes no key.
NoKey == Key("", <<>>)

\* _with_ext: the path unchanged when it already ends with the suffix.
with_ext(path, e) ==
    IF Len(path.exts) > 0 /\ path.exts[Len(path.exts)] = e
    THEN path
    ELSE [path EXCEPT !.exts = Append(@, e)]

\* _key2path: local_path / _with_ext(key, ext); paths are relative to local_path.
key2path(key) == with_ext(key, ext)

\* _path2key: os.path.splitext drops the last suffix, whatever it is.
path2key(path) ==
    IF Len(path.exts) > 0
    THEN [path EXCEPT !.exts = SubSeq(@, 1, Len(@) - 1)]
    ELSE path

Paths == {key2path(k) : k \in Keys}

\* A file that something other than this cache put in the directory or
\* under the S3 prefix: "a", without a suffix.
ForeignPaths == {Key("a", <<>>)}

\* S3ReaderWriter.path2key: the suffix is dropped only if it is the file type.
s3_path2key(path) ==
    IF Len(path.exts) > 0 /\ path.exts[Len(path.exts)] = ext
    THEN [path EXCEPT !.exts = SubSeq(@, 1, Len(@) - 1)]
    ELSE path

\* S3ReaderWriter.key2path
s3_key2path(key) == with_ext(key, ext)

\* S3Cache._build_catalog_dict over the locations s3.list_objects returns
s3_build_catalog_dict(locations) ==
    IF \E p, q \in locations : p # q /\ s3_path2key(p) = s3_path2key(q)
    THEN [out |-> "KeyError", catalog |-> [x \in {} |-> 0]]
    ELSE [out |-> "ok",
          catalog |-> [k \in {s3_path2key(p) : p \in locations} |->
                          CHOOSE p \in locations : s3_path2key(p) = k]]

\* ---------------------------------------------------------------- state ----
VARIABLES
    cache,  \* the instance: _catalog, _active, _read_only, _auto_init
    disk,   \* the directory local_path: whether it exists, and its files
    last,   \* the last call: its arguments, its outcome (out; the value
            \* returned in ret, the boolean of contains in truth, the keys of
            \* keys() in keyset), and the state before it
    written,\* a record of what this instance stored: key -> object, for each
            \* key put as a new key and not updated, removed or cleared since
    multi   \* a MultiCache over member caches: _caches, _sync_all, _active,
            \* _read_only, and the wall clock its members stamp their writes with

vars == <<cache, disk, last, written, multi>>

\* No MultiCache has been constructed.
NoMulti == <<>>

\* _catalog is None
NoCatalog == <<>>

EmptyFn == [x \in {} |-> None]

State == [c |-> cache, d |-> disk]

R(S, out, ret) == [S |-> S, out |-> out, ret |-> ret]

\* The catalog dict of a state whose _catalog is not None.
cat(S) == S.c.catalog[1]

\* --------------------------------------------------------- CatalogCache ----
\* LocalDiskCache.is_initialized
is_initialized(S) == S.d.exists /\ S.c.catalog # NoCatalog

\* A faulty _build_catalog without the "key in catalog" test: the path
\* visited last replaces the others.
build_catalog_overwriting(S) ==
    LET paths == IF S.d.exists THEN DOMAIN S.d.files ELSE {}
    IN  [out |-> "ok",
         catalog |-> [k \in {path2key(p) : p \in paths} |->
                         CHOOSE p \in paths : path2key(p) = k]]

\* LocalDiskCache._build_catalog: os.walk of a missing directory yields nothing.
build_catalog(S) ==
    LET paths == IF S.d.exists THEN DOMAIN S.d.files ELSE {}
        dup   == \E p, q \in paths : p # q /\ path2key(p) = path2key(q)
    IN  IF dup
        THEN [out |-> "KeyError", catalog |-> EmptyFn]
        ELSE [out |-> "ok",
              catalog |-> [k \in {path2key(p) : p \in paths} |->
                              CHOOSE p \in paths : path2key(p) = k]]

\* LocalDiskCache.initialize
initialize(S) ==
    LET S1 == [S EXCEPT !.d.exists = TRUE]
        b  == build_catalog(S1)
    IN  IF b.out = "ok"
        THEN R([S1 EXCEPT !.c.catalog = <<b.catalog>>], "ok", None)
        ELSE R(S1, b.out, None)

\* CatalogCache._check_initialized
check_initialized(S) ==
    IF is_initialized(S) THEN R(S, "ok", None)
    ELSE IF S.c.auto_init THEN initialize(S)
    ELSE R(S, "CacheNotInitializedError", None)

\* CatalogCache._contains
_contains(S, key) ==
    LET r == check_initialized(S)
    IN  IF r.out # "ok" THEN r
        ELSE R(r.S, "ok", key \in DOMAIN cat(r.S))

\* A faulty __contains__ that does not look at the active flag.
contains_ignoring_active(S, key) == _contains(S, key)

\* Cache.__contains__
contains(S, key) ==
    IF ~S.c.active THEN R(S, "ok", FALSE) ELSE _contains(S, key)

\* A faulty _remove that pops the catalog entry and leaves the file.
_remove_index_only(S, key) ==
    IF key \notin DOMAIN cat(S) THEN R(S, "ok", None)
    ELSE R([S EXCEPT !.c.catalog =
               <<[k \in DOMAIN cat(S) \ {key} |-> cat(S)[k]]>>], "ok", None)

\* LocalDiskCache._remove: the entry is popped before the file is removed.
_remove(S, key) ==
    IF key \notin DOMAIN cat(S) THEN R(S, "ok", None)
    ELSE LET path == cat(S)[key]
             S1 == [S EXCEPT !.c.catalog =
                       <<[k \in DOMAIN cat(S) \ {key} |-> cat(S)[k]]>>]
         IN  IF path \notin DOMAIN S1.d.files
             THEN R(S1, "FileNotFoundError", None)
             ELSE R([S1 EXCEPT !.d.files =
                       [p \in DOMAIN S1.d.files \ {path} |-> S1.d.files[p]]],
                    "ok", None)

\* A faulty _get that treats a missing file as it treats a truncated one.
_get_healing_missing(S, key) ==
    LET path == cat(S)[key]
        gone == R([S EXCEPT !.c.catalog =
                      <<[k \in DOMAIN cat(S) \ {key} |-> cat(S)[k]]>>], "ok", None)
    IN  IF path \notin DOMAIN S.d.files THEN gone
        ELSE IF S.d.files[path] = Truncated THEN gone
        ELSE R(S, "ok", S.d.files[path])

\* LocalDiskCache._get
_get(S, key) ==
    LET path == cat(S)[key]
    IN  IF path \notin DOMAIN S.d.files THEN R(S, "FileNotFoundError", None)
        ELSE IF S.d.files[path] = Truncated
        THEN LET r == _remove(S, key)
             IN  IF r.out # "ok" THEN r ELSE R(r.S, "ok", None)
        ELSE R(S, "ok", S.d.files[path])

\* A faulty _put that indexes the key without writing the file.
_put_index_only(S, key, obj) ==
    R([S EXCEPT !.d.exists = TRUE,
                !.c.catalog = <<[k \in DOMAIN cat(S) \cup {key} |->
                                   IF k = key THEN key2path(key) ELSE cat(S)[k]]>>],
      "ok", None)

\* A faulty _put that indexes the key before it writes the file.
_put_index_first(S, key, obj) ==
    LET path == key2path(key)
        S1 == [S EXCEPT !.d.exists = TRUE,
                        !.c.catalog = <<[k \in DOMAIN cat(S) \cup {key} |->
                                           IF k = key THEN path ELSE cat(S)[k]]>>,
                        !.d.files = [p \in DOMAIN S.d.files \cup {path} |->
                                        IF p = path
                                        THEN IF obj = Unpicklable
                                             THEN Truncated ELSE obj
                                        ELSE S.d.files[p]]]
    IN  IF obj = Unpicklable THEN R(S1, "PicklingError", None)
        ELSE R(S1, "ok", None)

\* LocalDiskCache._put: make the directories, write the file, index it.
\* open(path, 'wb') has emptied the file when pickle.dump raises.
_put(S, key, obj) ==
    LET path == key2path(key)
        S1 == [S EXCEPT !.d.exists = TRUE,
                        !.d.files = [p \in DOMAIN S.d.files \cup {path} |->
                                        IF p = path
                                        THEN IF obj = Unpicklable
                                             THEN Truncated ELSE obj
                                        ELSE S.d.files[p]]]
    IN  IF obj = Unpicklable THEN R(S1, "PicklingError", None)
        ELSE R([S1 EXCEPT !.c.catalog =
                   <<[k \in DOMAIN cat(S) \cup {key} |->
                         IF k = key THEN path ELSE cat(S)[k]]>>],
               "ok", None)

\* A faulty get that returns None on a miss without a default.
Cache_get_none_on_miss(S, key, default) ==
    LET r == contains(S, key)
    IN  IF r.out # "ok" THEN r
        ELSE IF ~r.ret \/ ~r.S.c.active
        THEN R(r.S, "ok", IF default = UNSPECIFIED THEN None ELSE default)
        ELSE _get(r.S, key)

\* Cache.get
Cache_get(S, key, default) ==
    LET r == contains(S, key)
    IN  IF r.out # "ok" THEN r
        ELSE IF ~r.ret \/ ~r.S.c.active
        THEN IF default = UNSPECIFIED
             THEN R(r.S, "KeyError", None)
             ELSE R(r.S, "ok", default)
        ELSE _get(r.S, key)

\* CatalogCache.get
get(S, key, default) ==
    LET r == check_initialized(S)
    IN  IF r.out # "ok" THEN r ELSE Cache_get(r.S, key, default)

\* Cache.__getitem__
getitem(S, key) == get(S, key, UNSPECIFIED)

\* A faulty put that overwrites a key it holds without being asked to.
Cache_put_unchecked(S, key, obj, update) ==
    IF S.c.read_only THEN R(S, "TypeError", None)
    ELSE IF ~S.c.active THEN R(S, "ok", None)
    ELSE LET r == contains(S, key)
         IN  IF r.out # "ok" THEN r ELSE _put(r.S, key, obj)

\* A faulty put that looks at the read-only flag only when the cache is active.
Cache_put_active_first(S, key, obj, update) ==
    IF ~S.c.active THEN R(S, "ok", None)
    ELSE IF S.c.read_only THEN R(S, "TypeError", None)
    ELSE LET r == contains(S, key)
         IN  IF r.out # "ok" THEN r
             ELSE IF r.ret /\ ~update THEN R(r.S, "ValueError", None)
             ELSE _put(r.S, key, obj)

\* Cache.put
Cache_put(S, key, obj, update) ==
    IF S.c.read_only THEN R(S, "TypeError", None)
    ELSE IF ~S.c.active THEN R(S, "ok", None)
    ELSE LET r == contains(S, key)
         IN  IF r.out # "ok" THEN r
             ELSE IF r.ret /\ ~update THEN R(r.S, "ValueError", None)
             ELSE _put(r.S, key, obj)

\* A faulty put that does not check that the cache is initialized.
put_without_check(S, key, obj, update) == Cache_put(S, key, obj, update)

\* CatalogCache.put
put(S, key, obj, update) ==
    LET r == check_initialized(S)
    IN  IF r.out # "ok" THEN r ELSE Cache_put(r.S, key, obj, update)

\* A faulty update that creates the key when the cache does not hold it.
update_or_create(S, key, obj) == put(S, key, obj, TRUE)

\* Cache.update
update(S, key, obj) ==
    LET r == contains(S, key)
    IN  IF r.out # "ok" THEN r
        ELSE IF ~r.ret THEN R(r.S, "KeyError", None)
        ELSE put(r.S, key, obj, TRUE)

\* Cache.remove
remove(S, key) ==
    IF ~S.c.active THEN R(S, "ok", None)
    ELSE LET r == contains(S, key)
         IN  IF r.out # "ok" THEN r
             ELSE IF ~r.ret THEN R(r.S, "ok", None)
             ELSE IF r.S.c.read_only THEN R(r.S, "TypeError", None)
             ELSE _remove(r.S, key)

\* A faulty pop that returns the object and leaves it in the cache.
pop_without_remove(S, key, default) == get(S, key, default)

\* Cache.pop
pop(S, key, default) ==
    LET r == get(S, key, default)
    IN  IF r.out # "ok" THEN r
        ELSE LET r2 == remove(r.S, key)
             IN  IF r2.out # "ok" THEN r2 ELSE R(r2.S, "ok", r.ret)

\* CatalogCache.keys (the keys as a set)
keys(S) ==
    LET r == check_initialized(S)
    IN  IF r.out # "ok" THEN r
        ELSE IF ~r.S.c.active THEN R(r.S, "ok", {})
        ELSE R(r.S, "ok", DOMAIN cat(r.S))

\* A faulty clear that deletes without force.
clear_unguarded(S, force, init) ==
    LET guarded == /\ S.c.active
                   /\ S.c.catalog # NoCatalog
                   /\ DOMAIN cat(S) # {}
                   /\ S.d.exists
        S1 == [S EXCEPT !.d.exists = FALSE, !.d.files = EmptyFn]
        S2 == [S1 EXCEPT !.c.catalog = <<EmptyFn>>]
        S3 == IF guarded THEN S2 ELSE S
    IN  IF init THEN initialize(S3) ELSE R(S3, "ok", None)

\* LocalDiskCache.clear
clear(S, force, init) ==
    LET guarded == /\ S.c.active
                   /\ S.c.catalog # NoCatalog
                   /\ DOMAIN cat(S) # {}
                   /\ S.d.exists
        S1 == [S EXCEPT !.d.exists = FALSE, !.d.files = EmptyFn]
        S2 == [S1 EXCEPT !.c.catalog = <<build_catalog(S1).catalog>>]
        S3 == IF guarded THEN S2 ELSE S
    IN  IF guarded /\ ~force THEN R(S, "RuntimeError", None)
        ELSE IF init THEN initialize(S3)
        ELSE R(S3, "ok", None)

\* Cache.activate, Cache.deactivate, Cache.set_read_only
activate(S) == R([S EXCEPT !.c.active = TRUE], "ok", None)

deactivate(S) == R([S EXCEPT !.c.active = FALSE], "ok", None)

set_read_only(S, value) == R([S EXCEPT !.c.read_only = value], "ok", None)

\* -------------------------------------------------------------- actions ----
\* The record of what was stored, kept only by a behaviour that starts with
\* one (written = <<the record>>): a put of a key the cache did not hold, on
\* an initialized, active, writable cache, records the object; any later put,
\* update, remove or pop of the key, and any clear, forgets it.
NotTracked == <<>>

Record(op, key, obj, r) ==
    LET w == written[1]
        rest == [k \in DOMAIN w \ {key} |-> w[k]]
        isnew == /\ is_initialized(State) /\ cache.active /\ ~cache.read_only
                 /\ key \notin DOMAIN cat(State)
    IN  IF written = NotTracked THEN NotTracked
        ELSE IF op = "clear" THEN <<EmptyFn>>
        ELSE IF op = "put" /\ isnew /\ r.out = "ok"
        THEN <<[k \in DOMAIN w \cup {key} |-> IF k = key THEN obj ELSE w[k]]>>
        ELSE IF op \in {"put", "update", "remove", "pop"} THEN <<rest>>
        ELSE written

Call(op, key, obj, flag, default, r) ==
    /\ cache' = r.S.c
    /\ disk' = r.S.d
    /\ last' = [op |-> op, key |-> key, obj |-> obj, flag |-> flag,
                default |-> default, out |-> r.out,
                ret |-> IF op \in {"contains", "keys"} THEN None ELSE r.ret,
                truth |-> op = "contains" /\ r.out = "ok" /\ r.ret,
                keyset |-> IF op = "keys" /\ r.out = "ok" THEN r.ret ELSE {},
                pre |-> State]
    /\ written' = Record(op, key, obj, r)
    /\ UNCHANGED multi

\* LocalDiskCache.__init__: the catalog is None; the directory may hold the
\* pickles of an earlier run, or not exist yet.
InitCache ==
    /\ \E a, ro, ai \in BOOLEAN :
          cache = [catalog |-> NoCatalog, active |-> a, read_only |-> ro,
                   auto_init |-> ai]
    /\ \/ disk = [exists |-> FALSE, files |-> EmptyFn]
       \/ \E P \in SUBSET Paths : \E f \in [P -> Objects] :
             disk = [exists |-> TRUE, files |-> [p \in P |-> f[p]]]
    /\ last = [op |-> "__init__", key |-> NoKey, obj |-> None, flag |-> FALSE,
               default |-> UNSPECIFIED, out |-> "ok", ret |-> None,
               truth |-> FALSE, keyset |-> {}, pre |-> State]

Init == InitCache /\ written = NotTracked /\ multi = NoMulti

InitTracked ==
    InitCache /\ written = <<EmptyFn>> /\ multi = NoMulti

\* The same construction over a directory in which an earlier run may have
\* left files cut short: pickle.load raises EOFError on them.
InitCorrupt ==
    /\ \E a, ro, ai \in BOOLEAN :
          cache = [catalog |-> NoCatalog, active |-> a, read_only |-> ro,
                   auto_init |-> ai]
    /\ \E P \in SUBSET Paths : \E f \in [P -> Objects \cup {Truncated}] :
          disk = [exists |-> TRUE, files |-> [p \in P |-> f[p]]]
    /\ last = [op |-> "__init__", key |-> NoKey, obj |-> None, flag |-> FALSE,
               default |-> UNSPECIFIED, out |-> "ok", ret |-> None,
               truth |-> FALSE, keyset |-> {}, pre |-> State]
    /\ written = NotTracked
    /\ multi = NoMulti

\* The same construction over a directory that may also hold files this
\* cache did not write.
InitForeign ==
    /\ \E a, ro, ai \in BOOLEAN :
          cache = [catalog |-> NoCatalog, active |-> a, read_only |-> ro,
                   auto_init |-> ai]
    /\ \E P \in SUBSET (Paths \cup ForeignPaths) : \E f \in [P -> Objects] :
          disk = [exists |-> TRUE, files |-> [p \in P |-> f[p]]]
    /\ last = [op |-> "__init__", key |-> NoKey, obj |-> None, flag |-> FALSE,
               default |-> UNSPECIFIED, out |-> "ok", ret |-> None,
               truth |-> FALSE, keyset |-> {}, pre |-> State]
    /\ written = NotTracked
    /\ multi = NoMulti

Initialize == Call("initialize", NoKey, None, FALSE, UNSPECIFIED, initialize(State))

Activate == Call("activate", NoKey, None, FALSE, UNSPECIFIED, activate(State))

Deactivate == Call("deactivate", NoKey, None, FALSE, UNSPECIFIED, deactivate(State))

SetReadOnly ==
    \E v \in BOOLEAN :
        Call("set_read_only", NoKey, None, v, UNSPECIFIED, set_read_only(State, v))

Contains ==
    \E k \in Keys :
        Call("contains", k, None, FALSE, UNSPECIFIED, contains(State, k))

Get ==
    \E k \in Keys, dflt \in Defaults :
        Call("get", k, None, FALSE, dflt, get(State, k, dflt))

GetItem ==
    \E k \in Keys :
        Call("getitem", k, None, FALSE, UNSPECIFIED, getitem(State, k))

Put ==
    \E k \in Keys, o \in Objects, u \in BOOLEAN :
        Call("put", k, o, u, UNSPECIFIED, put(State, k, o, u))

Update ==
    \E k \in Keys, o \in Objects :
        Call("update", k, o, FALSE, UNSPECIFIED, update(State, k, o))

Remove ==
    \E k \in Keys :
        Call("remove", k, None, FALSE, UNSPECIFIED, remove(State, k))

Pop ==
    \E k \in Keys, dflt \in Defaults :
        Call("pop", k, None, FALSE, dflt, pop(State, k, dflt))

ListKeys == Call("keys", NoKey, None, FALSE, UNSPECIFIED, keys(State))

\* clear(force, initialize): obj carries the initialize argument as 1 or None.
Clear ==
    \E force, init \in BOOLEAN :
        Call("clear", NoKey, IF init THEN 1 ELSE None, force, UNSPECIFIED,
             clear(State, force, init))

Next ==
    \/ Initialize \/ Activate \/ Deactivate \/ SetReadOnly
    \/ Contains \/ Get \/ GetItem \/ Put \/ Update \/ Remove \/ Pop
    \/ ListKeys \/ Clear

Spec == Init /\ [][Next]_vars

\* The same program, with the record of what was stored kept.
SpecTracked == InitTracked /\ [][Next]_vars

\* The same program over a directory that may hold truncated files.
SpecCorrupt == InitCorrupt /\ [][Next]_vars

\* The same program over a directory that may hold foreign files.
SpecForeign == InitForeign /\ [][Next]_vars

\* put(key, obj, update) and update(key, obj) of an object that cannot be
\* pickled.
PutUnpicklable ==
    \/ \E k \in Keys, u \in BOOLEAN :
          Call("put", k, Unpicklable, u, UNSPECIFIED,
               put(State, k, Unpicklable, u))
    \/ \E k \in Keys :
          Call("update", k, Unpicklable, FALSE, UNSPECIFIED,
               update(State, k, Unpicklable))

NextFailing == Next \/ PutUnpicklable

\* The same program, with callers that also store objects whose write fails.
SpecFailing == Init /\ [][NextFailing]_vars

\* ----------------------------------------------------------- MultiCache ----
\* The MultiCache of caching/multi_cache.py over member caches.  A member is
\* [active, read_only, items], items mapping each key it stores to the object
\* and the CachedItemMeta written with it.  The caches handed to the
\* constructor are one per tier.
Tiers == <<"memory", "local", "s3">>

\* The keys used on the MultiCache.
MKeys == {"x"}

\* meta=None
NoMeta == <<>>

\* The CachedItemMeta a write makes when it is given none: the key, the size
\* of the object and the time of the write (the path follows from the key).
NewMeta(key, obj, now) == [key |-> key, size |-> obj, timestamp |-> now]

\* Cache.__contains__ of a member
m_contains(c, key) == c.active /\ key \in DOMAIN c.items

\* Cache.get of a member, without default
m_get(c, key) ==
    IF m_contains(c, key)
    THEN [out |-> "ok", ret |-> c.items[key].obj]
    ELSE [out |-> "KeyError", ret |-> None]

\* What get_meta of a member does with a key the member does not contain
\* (a key it lacks, or any key while it is deactivated): it fails as get
\* does, or it returns None.
MetaMiss == {"KeyError", "None"}

\* Cache.get_meta of a member
m_get_meta(c, key) ==
    IF m_contains(c, key)
    THEN [out |-> "ok", ret |-> <<c.items[key].meta>>]
    ELSE IF c.get_meta_miss = "KeyError"
    THEN [out |-> "KeyError", ret |-> NoMeta]
    ELSE [out |-> "ok", ret |-> NoMeta]

\* Cache.put of a member: meta is NoMeta or <<the meta to store>>; now is the
\* wall clock, which a write that makes its own meta moves on.
m_put(c, key, obj, upd, meta, now) ==
    IF c.read_only THEN [c |-> c, out |-> "TypeError", now |-> now]
    ELSE IF ~c.active THEN [c |-> c, out |-> "ok", now |-> now]
    ELSE IF key \in DOMAIN c.items /\ ~upd
    THEN [c |-> c, out |-> "ValueError", now |-> now]
    ELSE LET m == IF meta = NoMeta THEN NewMeta(key, obj, now) ELSE meta[1]
         IN  [c |-> [c EXCEPT !.items =
                        [k \in DOMAIN c.items \cup {key} |->
                            IF k = key THEN [obj |-> obj, meta |-> m]
                            ELSE c.items[k]]],
              out |-> "ok",
              now |-> IF meta = NoMeta THEN now + 1 ELSE now]

\* Cache.update of a member
m_update(c, key, obj, now) ==
    IF ~m_contains(c, key) THEN [c |-> c, out |-> "KeyError", now |-> now]
    ELSE m_put(c, key, obj, TRUE, NoMeta, now)

\* Cache.remove of a member
m_remove(c, key) ==
    IF ~m_contains(c, key) THEN [c |-> c, out |-> "ok"]
    ELSE IF c.read_only THEN [c |-> c, out |-> "TypeError"]
    ELSE [c |-> [c EXCEPT !.items = [k \in DOMAIN c.items \ {key} |-> c.items[k]]],
          out |-> "ok"]

\* Cache.keys of a member
m_keys(c) == IF c.active THEN DOMAIN c.items ELSE {}

\* caches[::-1]
Reverse(s) == [i \in 1..Len(s) |-> s[Len(s) + 1 - i]]

\* MultiCache.__init__
MultiCache_init(caches, left_to_right_priority, sync_all, active, read_only) ==
    [caches |-> IF left_to_right_priority THEN caches ELSE Reverse(caches),
     sync_all |-> sync_all, active |-> active, read_only |-> read_only,
     now |-> Len(caches) + 1]

\* The result of a MultiCache method: the MultiCache it leaves, "ok" or the
\* exception raised, and the value returned.
MR(M, out, ret) == [M |-> M, out |-> out, ret |-> ret]

Members(M) == 1..Len(M.caches)

\* The member at position i replaced, and the clock after its write.
SetMember(M, i, c, now) == [M EXCEPT !.caches[i] = c, !.now = now]

\* MultiCache.__contains__
mc_contains(M, key) == \E i \in Members(M) : m_contains(M.caches[i], key)

\* A faulty search that takes the last member that contains the key.
LastHit(M, key) ==
    IF mc_contains(M, key)
    THEN CHOOSE i \in Members(M) :
            /\ m_contains(M.caches[i], key)
            /\ \A j \in (i + 1)..Len(M.caches) : ~m_contains(M.caches[j], key)
    ELSE 0

\* The first member in priority order that contains the key; 0 when none does.
FirstHit(M, key) ==
    IF mc_contains(M, key)
    THEN CHOOSE i \in Members(M) :
            /\ m_contains(M.caches[i], key)
            /\ \A j \in 1..(i - 1) : ~m_contains(M.caches[j], key)
    ELSE 0

\* MultiCache.is_active, MultiCache.is_read_only
mc_is_active(M) == M.active /\ \E i \in Members(M) : M.caches[i].active

mc_is_read_only(M) == M.read_only \/ \A i \in Members(M) : M.caches[i].read_only

\* MultiCache.keys (the keys as a set)
mc_keys(M) ==
    IF ~mc_is_active(M) THEN {}
    ELSE UNION {m_keys(M.caches[i]) : i \in Members(M)}

\* A faulty back-fill that stops after the first member it has written.
Backfill_first_only(M, key, obj, i) ==
    LET gaps == {j \in i..Len(M.caches) :
                    ~M.caches[j].read_only /\ ~m_contains(M.caches[j], key)}
        j == CHOOSE g \in gaps : \A h \in gaps : g <= h
        r == m_put(M.caches[j], key, obj, FALSE, NoMeta, M.now)
    IN  IF gaps = {} THEN MR(M, "ok", obj)
        ELSE MR(SetMember(M, j, r.c, r.now), r.out, obj)

\* The loop of MultiCache.get that back-fills the members from position i on.
RECURSIVE Backfill(_, _, _, _)
Backfill(M, key, obj, i) ==
    IF i > Len(M.caches) THEN MR(M, "ok", obj)
    ELSE LET c == M.caches[i]
             r == m_put(c, key, obj, FALSE, NoMeta, M.now)
         IN  IF c.read_only \/ m_contains(c, key) THEN Backfill(M, key, obj, i + 1)
             ELSE IF r.out # "ok" THEN MR(M, r.out, None)
             ELSE Backfill(SetMember(M, i, r.c, r.now), key, obj, i + 1)

\* MultiCache.get: sync is <<>> (None), <<TRUE>> or <<FALSE>>.
mc_get(M, key, default, sync) ==
    LET s   == IF sync = <<>> THEN M.sync_all ELSE sync[1]
        hit == FirstHit(M, key)
    IN  IF hit = 0
        THEN IF default = UNSPECIFIED THEN MR(M, "KeyError", None)
             ELSE MR(M, "ok", default)
        ELSE IF s THEN Backfill(M, key, m_get(M.caches[hit], key).ret, 1)
        ELSE MR(M, "ok", m_get(M.caches[hit], key).ret)

\* MultiCache.get_meta
mc_get_meta(M, key) ==
    IF FirstHit(M, key) = 0 THEN MR(M, "KeyError", NoMeta)
    ELSE MR(M, "ok", m_get_meta(M.caches[FirstHit(M, key)], key).ret)

\* [cache.get_meta(key) for cache in self if key in cache]
MetasOf(M, key) ==
    LET sel == SelectSeq(M.caches, LAMBDA c : m_contains(c, key))
    IN  [i \in 1..Len(sel) |-> sel[i].items[key].meta]

\* MultiCache.check_meta_mismatches: key is <<>> (None) or <<the key>>.
check_meta_mismatches(M, key) ==
    LET ks  == IF key = <<>> THEN mc_keys(M) ELSE {key[1]}
        bad == {k \in ks : /\ Len(MetasOf(M, k)) > 1
                           /\ \E i \in 2..Len(MetasOf(M, k)) :
                                 MetasOf(M, k)[i] # MetasOf(M, k)[1]}
    IN  [k \in bad |-> MetasOf(M, k)]

\* A faulty put loop that always goes on to the next member.
RECURSIVE PutLoop_all(_, _, _, _, _, _)
PutLoop_all(M, key, obj, upd, meta, i) ==
    IF i > Len(M.caches) THEN MR(M, "ok", None)
    ELSE LET c  == M.caches[i]
             r  == m_put(c, key, obj, upd, meta, M.now)
             M1 == SetMember(M, i, r.c, r.now)
             gm == m_get_meta(r.c, key)
         IN  IF c.read_only THEN PutLoop_all(M, key, obj, upd, meta, i + 1)
             ELSE IF r.out # "ok" THEN MR(M, r.out, None)
             ELSE IF gm.out # "ok" THEN MR(M1, gm.out, None)
             ELSE PutLoop_all(M1, key, obj, upd, gm.ret, i + 1)

\* A faulty put loop that always stops after the first member it has written.
RECURSIVE PutLoop_first(_, _, _, _, _, _)
PutLoop_first(M, key, obj, upd, meta, i) ==
    IF i > Len(M.caches) THEN MR(M, "ok", None)
    ELSE LET c  == M.caches[i]
             r  == m_put(c, key, obj, upd, meta, M.now)
             M1 == SetMember(M, i, r.c, r.now)
             gm == m_get_meta(r.c, key)
         IN  IF c.read_only THEN PutLoop_first(M, key, obj, upd, meta, i + 1)
             ELSE IF r.out # "ok" THEN MR(M, r.out, None)
             ELSE IF gm.out # "ok" THEN MR(M1, gm.out, None)
             ELSE MR(M1, "ok", None)

\* The loop of MultiCache.put from position i on.
RECURSIVE PutLoop(_, _, _, _, _, _)
PutLoop(M, key, obj, upd, meta, i) ==
    IF i > Len(M.caches) THEN MR(M, "ok", None)
    ELSE LET c  == M.caches[i]
             r  == m_put(c, key, obj, upd, meta, M.now)
             M1 == SetMember(M, i, r.c, r.now)
             gm == m_get_meta(r.c, key)
             mismatch == DOMAIN check_meta_mismatches(M1, <<key>>) # {}
         IN  IF c.read_only THEN PutLoop(M, key, obj, upd, meta, i + 1)
             ELSE IF r.out # "ok" THEN MR(M, r.out, None)
             ELSE IF gm.out # "ok" THEN MR(M1, gm.out, None)
             ELSE IF ~M.sync_all /\ ~mismatch THEN MR(M1, "ok", None)
             ELSE PutLoop(M1, key, obj, upd, gm.ret, i + 1)

\* A faulty put whose loop starts at the second member.
mc_put_from_second(M, key, obj, upd, meta) == PutLoop(M, key, obj, upd, meta, 2)

\* MultiCache.put
mc_put(M, key, obj, upd, meta) == PutLoop(M, key, obj, upd, meta, 1)

\* MultiCache.update
mc_update(M, key, obj) ==
    IF ~mc_contains(M, key) THEN MR(M, "KeyError", None)
    ELSE mc_put(M, key, obj, TRUE, NoMeta)

\* A faulty remove loop that stops after the first member that had the key.
RECURSIVE RemoveLoop_first(_, _, _)
RemoveLoop_first(M, key, i) ==
    IF i > Len(M.caches) THEN MR(M, "ok", None)
    ELSE LET c == M.caches[i]
             r == m_remove(c, key)
         IN  IF ~m_contains(c, key) THEN RemoveLoop_first(M, key, i + 1)
             ELSE MR(SetMember(M, i, r.c, M.now), r.out, None)

\* A faulty remove loop that goes on after a member has raised and raises
\* at the end.
RECURSIVE RemoveLoop_raise_last(_, _, _)
RemoveLoop_raise_last(M, key, i) ==
    IF i > Len(M.caches) THEN MR(M, "ok", None)
    ELSE LET c == M.caches[i]
             r == m_remove(c, key)
             rest == RemoveLoop_raise_last(M, key, i + 1)
         IN  IF ~m_contains(c, key) THEN rest
             ELSE IF r.out # "ok" THEN MR(rest.M, r.out, None)
             ELSE RemoveLoop_raise_last(SetMember(M, i, r.c, M.now), key, i + 1)

\* The loop of MultiCache.remove from position i on.
RECURSIVE RemoveLoop(_, _, _)
RemoveLoop(M, key, i) ==
    IF i > Len(M.caches) THEN MR(M, "ok", None)
    ELSE LET c == M.caches[i]
             r == m_remove(c, key)
         IN  IF ~m_contains(c, key) THEN RemoveLoop(M, key, i + 1)
             ELSE IF r.out # "ok" THEN MR(M, r.out, None)
             ELSE RemoveLoop(SetMember(M, i, r.c, M.now), key, i + 1)

\* MultiCache.remove
mc_remove(M, key) == RemoveLoop(M, key, 1)

\* MultiCache.pop
mc_pop(M, key, default) ==
    LET g == mc_get(M, key, default, <<>>)
        r == mc_remove(g.M, key)
    IN  IF g.out # "ok" THEN g
        ELSE IF ~mc_contains(g.M, key) THEN g
        ELSE IF r.out # "ok" THEN r
        ELSE MR(r.M, "ok", g.ret)

\* A faulty inner loop that fills the first member that lacks the key, and
\* no other.
SyncKey_first_gap(M, key, got, i) ==
    LET gaps == {j \in i..Len(M.caches) : ~m_contains(M.caches[j], key)}
        j == CHOOSE g \in gaps : \A h \in gaps : g <= h
        g == mc_get(M, key, UNSPECIFIED, <<FALSE>>)
        gm == mc_get_meta(M, key)
        r == m_put(M.caches[j], key, g.ret, FALSE, gm.ret, M.now)
    IN  IF gaps = {} \/ g.out # "ok" THEN MR(M, "ok", None)
        ELSE MR(SetMember(M, j, r.c, r.now), r.out, None)

\* A faulty inner loop that writes the copy it fetched over the copies of
\* the members that have the key, too.
RECURSIVE SyncKey_overwriting(_, _, _, _)
SyncKey_overwriting(M, key, got, i) ==
    IF i > Len(M.caches) THEN MR(M, "ok", None)
    ELSE LET c    == M.caches[i]
             g    == mc_get(M, key, UNSPECIFIED, <<FALSE>>)
             gm   == mc_get_meta(M, key)
             have == IF got = <<>> THEN <<g.ret, gm.ret>> ELSE got
             r    == m_put(c, key, have[1], TRUE, have[2], M.now)
         IN  IF got = <<>> /\ g.out # "ok" THEN MR(M, g.out, None)
             ELSE IF got = <<>> /\ gm.out # "ok" THEN MR(M, gm.out, None)
             ELSE IF r.out # "ok" THEN MR(M, r.out, None)
             ELSE SyncKey_overwriting(SetMember(M, i, r.c, r.now), key, have, i + 1)

\* The inner loop of MultiCache.sync_now for one key, from position i on; got
\* is <<>> while obj is None, and <<obj, meta>> once they were fetched.
RECURSIVE SyncKey(_, _, _, _)
SyncKey(M, key, got, i) ==
    IF i > Len(M.caches) THEN MR(M, "ok", None)
    ELSE LET c    == M.caches[i]
             g    == mc_get(M, key, UNSPECIFIED, <<FALSE>>)
             gm   == mc_get_meta(M, key)
             have == IF got = <<>> THEN <<g.ret, gm.ret>> ELSE got
             r    == m_put(c, key, have[1], FALSE, have[2], M.now)
             mismatch == DOMAIN check_meta_mismatches(M, <<key>>) # {}
         IN  IF m_contains(c, key)
             THEN IF mismatch THEN MR(M, "RuntimeError", None)
                  ELSE SyncKey(M, key, got, i + 1)
             ELSE IF got = <<>> /\ g.out # "ok" THEN MR(M, g.out, None)
             ELSE IF got = <<>> /\ gm.out # "ok" THEN MR(M, gm.out, None)
             ELSE IF r.out # "ok" THEN MR(M, r.out, None)
             ELSE SyncKey(SetMember(M, i, r.c, r.now), key, have, i + 1)

\* The outer loop of MultiCache.sync_now over the keys, in the order given.
RECURSIVE SyncKeys(_, _, _)
SyncKeys(M, order, n) ==
    IF n > Len(order) THEN MR(M, "ok", None)
    ELSE LET r == SyncKey(M, order[n], <<>>, 1)
         IN  IF r.out # "ok" THEN r ELSE SyncKeys(r.M, order, n + 1)

\* The orders in which list(set(keys)) can enumerate a set of keys.
Orders(S) ==
    {s \in [1..Cardinality(S) -> S] : \A k \in S : \E n \in DOMAIN s : s[n] = k}

\* MultiCache.sync_now, with the order in which self.keys() lists the keys
sync_now(M, order) == SyncKeys(M, order, 1)

\* MultiCache.sync_always
sync_always(M, order) == sync_now([M EXCEPT !.sync_all = TRUE], order)

\* A faulty activate that sets the MultiCache's own flag and leaves the
\* members as they are.
mc_activate_own_only(M) == MR([M EXCEPT !.active = TRUE], "ok", None)

\* MultiCache.activate, MultiCache.deactivate
mc_activate(M) ==
    MR([M EXCEPT !.active = TRUE,
                 !.caches = [i \in Members(M) |-> [M.caches[i] EXCEPT !.active = TRUE]]],
       "ok", None)

mc_deactivate(M) ==
    MR([M EXCEPT !.active = FALSE,
                 !.caches = [i \in Members(M) |-> [M.caches[i] EXCEPT !.active = FALSE]]],
       "ok", None)

\* Cache.is_initialized and Cache.initialize of a member: its catalog is
\* built. The members that SpecMulti starts with are initialized.
m_is_initialized(c) == c.initialized

m_initialize(c) == [c EXCEPT !.initialized = TRUE]

\* index=None
NoIndex == <<>>

\* The index arguments of add_cache: None, or <<n>> for the integer n.
IndexArgs == {NoIndex} \cup {<<n>> : n \in -2..(Len(Tiers) + 1)}

\* list.insert and list.append: c put at position p (counted from 1) of s.
InsertAt(s, p, c) ==
    [i \in 1..(Len(s) + 1) |->
        IF i < p THEN s[i] ELSE IF i = p THEN c ELSE s[i - 1]]

\* A faulty add_cache that appends whatever the index is.
mc_add_cache_append(M, c, index) ==
    MR([M EXCEPT !.caches = InsertAt(M.caches, Len(M.caches) + 1, c)],
       "ok", None)

\* MultiCache.add_cache of multi_cache.py; list.insert takes an index past
\* the end as the end.
mc_add_cache(M, c, index) ==
    LET p == IF index # NoIndex /\ index[1] >= 0
             THEN (IF index[1] < Len(M.caches) THEN index[1] ELSE Len(M.caches)) + 1
             ELSE Len(M.caches) + 1
    IN  MR([M EXCEPT !.caches = InsertAt(M.caches, p, c)], "ok", None)

\* MultiCache.is_initialized of base.py
base_is_initialized(M) == \A i \in Members(M) : m_is_initialized(M.caches[i])

\* MultiCache.add_cache of base.py
base_add_cache(M, c, index) ==
    mc_add_cache(M,
                 IF base_is_initialized(M) /\ ~m_is_initialized(c)
                 THEN m_initialize(c) ELSE c,
                 index)

\* Timestamps are only ever compared for equality, and only between the metas
\* of one key: each is renamed to the position of the first member that holds
\* the key with that timestamp, and the clock is set past all of them.
Normalize(M) ==
    LET first(i, k) ==
            CHOOSE j \in Members(M) :
                /\ k \in DOMAIN M.caches[j].items
                /\ M.caches[j].items[k].meta = M.caches[i].items[k].meta
                /\ \A h \in 1..(j - 1) :
                      ~(/\ k \in DOMAIN M.caches[h].items
                        /\ M.caches[h].items[k].meta = M.caches[i].items[k].meta)
    IN  [M EXCEPT
           !.now = Len(M.caches) + 1,
           !.caches = [i \in Members(M) |->
               [M.caches[i] EXCEPT !.items =
                   [k \in DOMAIN M.caches[i].items |->
                       [M.caches[i].items[k] EXCEPT !.meta.timestamp = first(i, k)]]]]]

\* ------------------------------------------------------ MultiCache actions ----
MDefaults == {UNSPECIFIED, None}

\* The sync argument of MultiCache.get: None, True or False.
SyncArgs == {<<>>, <<TRUE>>, <<FALSE>>}

\* A call on the MultiCache: it leaves the MultiCache of the result r.
MCall(r) ==
    /\ multi' = Normalize(r.M)
    /\ UNCHANGED <<cache, disk, last, written>>

\* A call on the member at position i, which is addressable on its own.
MemberCall(i, r) == MCall(MR(SetMember(multi, i, r.c, r.now), r.out, None))

\* MultiCache.__init__ over one cache per tier, each constructed with any
\* flags over a backend that is empty or holds a key from an earlier run.
InitMulti ==
    /\ cache = [catalog |-> NoCatalog, active |-> TRUE, read_only |-> FALSE,
                auto_init |-> FALSE]
    /\ disk = [exists |-> FALSE, files |-> EmptyFn]
    /\ last = [op |-> "__init__", key |-> NoKey, obj |-> None, flag |-> FALSE,
               default |-> UNSPECIFIED, out |-> "ok", ret |-> None,
               truth |-> FALSE, keyset |-> {}, pre |-> State]
    /\ written = NotTracked
    /\ \E act, ro \in [DOMAIN Tiers -> BOOLEAN] :
       \E held \in [DOMAIN Tiers -> [MKeys -> {None} \cup Objects]] :
       \E ltr, sync_all, active, read_only \in BOOLEAN, miss \in MetaMiss :
          LET caches == [i \in DOMAIN Tiers |->
                  [active |-> act[i], read_only |-> ro[i],
                   get_meta_miss |-> miss, initialized |-> TRUE,
                   items |-> [k \in {h \in MKeys : held[i][h] # None} |->
                                 [obj |-> held[i][k],
                                  meta |-> NewMeta(k, held[i][k], i)]]]]
          IN  multi = Normalize(MultiCache_init(caches, ltr, sync_all,
                                                active, read_only))

MultiGet ==
    \E k \in MKeys, dflt \in MDefaults, sync \in SyncArgs :
        MCall(mc_get(multi, k, dflt, sync))

MultiPut ==
    \E k \in MKeys, o \in Objects, u \in BOOLEAN :
        MCall(mc_put(multi, k, o, u, NoMeta))

MultiUpdate ==
    \E k \in MKeys, o \in Objects : MCall(mc_update(multi, k, o))

MultiRemove == \E k \in MKeys : MCall(mc_remove(multi, k))

MultiPop ==
    \E k \in MKeys, dflt \in MDefaults : MCall(mc_pop(multi, k, dflt))

MultiSyncNow ==
    \E order \in Orders(mc_keys(multi)) :
        MCall(sync_now(multi, order))

MultiSyncAlways ==
    \E order \in Orders(mc_keys(multi)) :
        MCall(sync_always(multi, order))

MultiActivate == MCall(mc_activate(multi))

MultiDeactivate == MCall(mc_deactivate(multi))

MemberPut ==
    \E i \in Members(multi), k \in MKeys, o \in Objects, u \in BOOLEAN :
        MemberCall(i, m_put(multi.caches[i], k, o, u, NoMeta, multi.now))

MemberUpdate ==
    \E i \in Members(multi), k \in MKeys, o \in Objects :
        MemberCall(i, m_update(multi.caches[i], k, o, multi.now))

MemberRemove ==
    \E i \in Members(multi), k \in MKeys :
        MemberCall(i, [c |-> m_remove(multi.caches[i], k).c,
                    out |-> m_remove(multi.caches[i], k).out, now |-> multi.now])

MemberActivate ==
    \E i \in Members(multi), v \in BOOLEAN :
        MemberCall(i, [c |-> [multi.caches[i] EXCEPT !.active = v], out |-> "ok",
                    now |-> multi.now])

MemberSetReadOnly ==
    \E i \in Members(multi), v \in BOOLEAN :
        MemberCall(i, [c |-> [multi.caches[i] EXCEPT !.read_only = v], out |-> "ok",
                    now |-> multi.now])

NextMulti ==
    \/ MultiGet \/ MultiPut \/ MultiUpdate \/ MultiRemove
    \/ MultiPop \/ MultiSyncNow \/ MultiSyncAlways
    \/ MultiActivate \/ MultiDeactivate
    \/ MemberPut \/ MemberUpdate \/ MemberRemove \/ MemberActivate
    \/ MemberSetReadOnly

\* A MultiCache and its members, called in any order.
SpecMulti == InitMulti /\ [][NextMulti]_vars

\* The largest number of members a MultiCache is grown to.
MaxMembers == Len(Tiers)

\* The caches handed to add_cache: active or not, read-only or not,
\* initialized or not, empty or holding one object.
CacheArgs ==
    {[active |-> a, read_only |-> ro, initialized |-> init,
      get_meta_miss |-> "KeyError",
      items |-> [k \in {h \in MKeys : o # None} |->
                    [obj |-> o, meta |-> NewMeta(k, o, 1)]]] :
        a \in BOOLEAN, ro \in BOOLEAN, init \in BOOLEAN,
        o \in {None} \cup Objects}

\* A MultiCache without members.
InitAdd ==
    /\ cache = [catalog |-> NoCatalog, active |-> TRUE, read_only |-> FALSE,
                auto_init |-> FALSE]
    /\ disk = [exists |-> FALSE, files |-> EmptyFn]
    /\ last = [op |-> "__init__", key |-> NoKey, obj |-> None, flag |-> FALSE,
               default |-> UNSPECIFIED, out |-> "ok", ret |-> None,
               truth |-> FALSE, keyset |-> {}, pre |-> State]
    /\ written = NotTracked
    /\ \E sync_all \in BOOLEAN :
          multi = MultiCache_init(<<>>, TRUE, sync_all, TRUE, FALSE)

MultiAddCache ==
    \E c \in CacheArgs, index \in IndexArgs :
        /\ Len(multi.caches) < MaxMembers
        /\ MCall(mc_add_cache(multi, c, index))

BaseAddCache ==
    \E c \in CacheArgs, index \in IndexArgs :
        /\ Len(multi.caches) < MaxMembers
        /\ MCall(base_add_cache(multi, c, index))

NextAdd == MultiAddCache \/ BaseAddCache

\* A MultiCache grown member by member, by either add_cache.
SpecAdd == InitAdd /\ [][NextAdd]_vars

\* ---------------------------------- LocalDiskCache of local_cache.py ----
\* The cache directory of local_cache.py holds, for every stored key, a data
\* file and a metadata file.  Here cache.catalog is the dict of the
\* instance's catalog, key -> CachedItemMeta, and disk.files maps a data
\* file to the object in it and a metadata file to the CachedItemMeta in it.

\* JsonMetaSerializer.ext
meta_ext == ".meta"

\* LocalReaderWriter.key2path
LocalReaderWriter_key2path(key, meta) ==
    IF meta THEN with_ext(key, meta_ext) ELSE with_ext(key, ext)

\* Path.stem: the name without its last suffix
stem(path) == path2key(path)

\* str.endswith of a file name and a suffix
has_suffix(p, e) == Len(p.exts) > 0 /\ p.exts[Len(p.exts)] = e

\* glob(path / '*<e>'): the files of the directory with the suffix e
glob(D, e) == {p \in DOMAIN D.files : has_suffix(p, e)}

\* The CachedItemMeta that LocalReaderWriter.write makes of a key.
CachedItemMeta(key) ==
    [key |-> key, path |-> LocalReaderWriter_key2path(key, FALSE)]

\* LocalReaderWriter.get_info
LocalReaderWriter_get_info(D, key) ==
    D.files[LocalReaderWriter_key2path(key, TRUE)]

\* LocalReaderWriter.write: the data file, then the metadata file.
LocalReaderWriter_write(D, key, obj) ==
    LET path      == LocalReaderWriter_key2path(key, FALSE)
        meta_path == LocalReaderWriter_key2path(key, TRUE)
        meta      == CachedItemMeta(key)
    IN  [d |-> [exists |-> TRUE,
                files |-> [p \in DOMAIN D.files \cup {path, meta_path} |->
                              IF p = meta_path THEN meta
                              ELSE IF p = path THEN obj
                              ELSE D.files[p]]],
         out |-> "ok", ret |-> meta]

\* LocalReaderWriter.delete: os.remove of the data file, then of the
\* metadata file; the first missing file raises.
LocalReaderWriter_delete(D, key) ==
    LET path      == LocalReaderWriter_key2path(key, FALSE)
        meta_path == LocalReaderWriter_key2path(key, TRUE)
        D1 == [D EXCEPT !.files = [p \in DOMAIN D.files \ {path} |-> D.files[p]]]
        D2 == [D1 EXCEPT !.files =
                  [p \in DOMAIN D1.files \ {meta_path} |-> D1.files[p]]]
    IN  IF path \notin DOMAIN D.files
        THEN [d |-> D, out |-> "FileNotFoundError", ret |-> None]
        ELSE IF meta_path \notin DOMAIN D1.files
        THEN [d |-> D1, out |-> "FileNotFoundError", ret |-> None]
        ELSE [d |-> D2, out |-> "ok", ret |-> None]

\* LocalDiskCache._build_catalog_dict
local_build_catalog_dict(D) ==
    LET data_keys == {stem(p) : p \in glob(D, ext)}
        meta_keys == {stem(p) : p \in glob(D, meta_ext)}
    IN  IF ~D.exists THEN [out |-> "ok", catalog |-> EmptyFn]
        ELSE IF data_keys # meta_keys
        THEN [out |-> "RuntimeError", catalog |-> EmptyFn]
        ELSE [out |-> "ok",
              catalog |-> [k \in meta_keys |-> LocalReaderWriter_get_info(D, k)]]

\* LocalDiskCache.create: the catalog is built from the directory when the
\* cache is constructed.
LocalDiskCache_create(S, active, read_only) ==
    LET b == local_build_catalog_dict(S.d)
    IN  IF b.out # "ok" THEN R(S, b.out, None)
        ELSE R([S EXCEPT !.c = [catalog |-> <<b.catalog>>, active |-> active,
                                read_only |-> read_only, auto_init |-> FALSE]],
               "ok", None)

\* Cache.put of the cache over a reader-writer: write, then index.
local_put(S, key, obj, upd) ==
    IF S.c.read_only THEN R(S, "TypeError", None)
    ELSE IF ~S.c.active THEN R(S, "ok", None)
    ELSE IF key \in DOMAIN cat(S) /\ ~upd THEN R(S, "ValueError", None)
    ELSE LET w == LocalReaderWriter_write(S.d, key, obj)
         IN  R([c |-> [S.c EXCEPT !.catalog =
                          <<[k \in DOMAIN cat(S) \cup {key} |->
                                IF k = key THEN w.ret ELSE cat(S)[k]]>>],
                 d |-> w.d], "ok", None)

\* Cache.update of the cache over a reader-writer
local_update(S, key, obj) ==
    IF ~S.c.active \/ key \notin DOMAIN cat(S) THEN R(S, "KeyError", None)
    ELSE local_put(S, key, obj, TRUE)

\* Cache.remove of the cache over a reader-writer: delete, then de-index.
local_remove(S, key) ==
    IF ~S.c.active \/ key \notin DOMAIN cat(S) THEN R(S, "ok", None)
    ELSE IF S.c.read_only THEN R(S, "TypeError", None)
    ELSE LET x == LocalReaderWriter_delete(S.d, key)
         IN  IF x.out # "ok" THEN R([S EXCEPT !.d = x.d], x.out, None)
             ELSE R([c |-> [S.c EXCEPT !.catalog =
                              <<[k \in DOMAIN cat(S) \ {key} |-> cat(S)[k]]>>],
                     d |-> x.d], "ok", None)

\* The files an earlier run can have left in the directory.
LocalPaths ==
    {LocalReaderWriter_key2path(k, m) : k \in Keys, m \in BOOLEAN}

\* A call of the instance; clean records that every call of the instance
\* since its creation returned normally.
LocalCall(op, key, obj, flag, r) ==
    /\ cache.catalog # NoCatalog
    /\ cache' = r.S.c
    /\ disk' = r.S.d
    /\ last' = [op |-> op, key |-> key, obj |-> obj, flag |-> flag,
                default |-> UNSPECIFIED, out |-> r.out, ret |-> r.ret,
                truth |-> FALSE, keyset |-> {}, pre |-> State,
                clean |-> last.clean /\ r.out = "ok"]
    /\ UNCHANGED <<written, multi>>

\* No instance yet, over any directory.
InitLocal ==
    /\ cache = [catalog |-> NoCatalog, active |-> TRUE, read_only |-> FALSE,
                auto_init |-> FALSE]
    /\ \/ disk = [exists |-> FALSE, files |-> EmptyFn]
       \/ \E P \in SUBSET LocalPaths :
             \E o \in Objects :
                disk = [exists |-> TRUE,
                        files |-> [p \in P |->
                            IF has_suffix(p, meta_ext)
                            THEN CachedItemMeta(stem(p)) ELSE o]]
    /\ last = [op |-> "__init__", key |-> NoKey, obj |-> None, flag |-> FALSE,
               default |-> UNSPECIFIED, out |-> "ok", ret |-> None,
               truth |-> FALSE, keyset |-> {}, pre |-> State, clean |-> FALSE]
    /\ written = NotTracked
    /\ multi = NoMulti

\* LocalDiskCache.create(path): a fresh instance over the directory.
LocalCreate ==
    \E a, ro \in BOOLEAN :
        LET r == LocalDiskCache_create(State, a, ro)
        IN  /\ cache.catalog = NoCatalog
            /\ cache' = r.S.c
            /\ disk' = r.S.d
            /\ last' = [op |-> "create", key |-> NoKey, obj |-> None,
                        flag |-> FALSE, default |-> UNSPECIFIED, out |-> r.out,
                        ret |-> None, truth |-> FALSE, keyset |-> {},
                        pre |-> State, clean |-> r.out = "ok"]
            /\ UNCHANGED <<written, multi>>

LocalPut ==
    \E k \in Keys, o \in Objects, u \in BOOLEAN :
        LocalCall("put", k, o, u, local_put(State, k, o, u))

LocalUpdate ==
    \E k \in Keys, o \in Objects :
        LocalCall("update", k, o, TRUE, local_update(State, k, o))

LocalRemove ==
    \E k \in Keys : LocalCall("remove", k, None, FALSE, local_remove(State, k))

NextLocal == LocalCreate \/ LocalPut \/ LocalUpdate \/ LocalRemove

\* One instance of the LocalDiskCache of local_cache.py over its directory.
SpecLocal == InitLocal /\ [][NextLocal]_vars

\* ------------------------------------------------------------ the claims ----
\* The state before the last call.
pre == last.pre

\* contains(K) is true.
Has(S, k) == contains(S, k).out = "ok" /\ contains(S, k).ret

\* get(K) returns o.
Gets(S, k, o) ==
    get(S, k, UNSPECIFIED).out = "ok" /\ get(S, k, UNSPECIFIED).ret = o

\* C1: round trip on a single cache.  On an initialized, active, writable
\* cache, put(K, O) of a key K the cache does not hold succeeds, and then
\* contains(K) is true and get(K) returns O; and while the cache stays
\* initialized and active this stays so until K is next put, updated, removed,
\* popped or the cache is cleared.
C1_RoundTrip ==
    /\ (/\ last.op = "put" /\ is_initialized(pre)
         /\ pre.c.active /\ ~pre.c.read_only /\ ~Has(pre, last.key))
        => /\ last.out = "ok"
           /\ Has(State, last.key)
           /\ Gets(State, last.key, last.obj)
    /\ (written # NotTracked /\ is_initialized(State) /\ cache.active)
        => \A k \in DOMAIN written[1] :
              Has(State, k) /\ Gets(State, k, written[1][k])

\* C2 as stated: on an initialized cache that holds K, put(K, O2) without
\* update fails with KeyExists (ValueError) and changes nothing.
C2_AsStated ==
    (last.op = "put" /\ ~last.flag /\ is_initialized(pre) /\ Has(pre, last.key))
    => last.out = "ValueError" /\ State = pre

\* C2: overwrite protection.  On an initialized, writable cache that holds K,
\* put(K, O2) without update fails with KeyExists (ValueError) and leaves the
\* catalog and the directory unchanged, so get(K) returns what it returned
\* before the call.
C2_OverwriteProtection ==
    (/\ last.op = "put" /\ ~last.flag /\ is_initialized(pre)
     /\ ~pre.c.read_only /\ Has(pre, last.key))
    => /\ last.out = "ValueError"
       /\ State = pre
       /\ get(State, last.key, UNSPECIFIED) = get(pre, last.key, UNSPECIFIED)

C2_Witness ==
    /\ last.op = "put" /\ ~last.flag /\ is_initialized(pre)
    /\ ~pre.c.read_only /\ Has(pre, last.key)
    /\ last.out = "ValueError"
    /\ \E o \in Objects : o # last.obj /\ Gets(State, last.key, o)

\* update(K, O2), or put(K, O2, update=true).
IsUpdate == last.op = "update" \/ (last.op = "put" /\ last.flag)

\* C3 as stated: on an initialized cache that holds K, update(K, O2) and
\* put(K, O2, update=true) succeed, get(K) then returns O2 and the set of keys
\* is the same.
C3_AsStated ==
    (IsUpdate /\ is_initialized(pre) /\ Has(pre, last.key))
    => /\ last.out = "ok"
       /\ Gets(State, last.key, last.obj)
       /\ keys(State) = [keys(pre) EXCEPT !.S = State]

\* C3: on an initialized, writable cache that holds K, update(K, O2) and
\* put(K, O2, update=true) succeed; afterwards get(K) returns O2 and the set
\* of keys is the same as before the call.
C3_Update ==
    (IsUpdate /\ is_initialized(pre) /\ ~pre.c.read_only /\ Has(pre, last.key))
    => /\ last.out = "ok"
       /\ Gets(State, last.key, last.obj)
       /\ keys(State) = [keys(pre) EXCEPT !.S = State]

C3_Witness ==
    /\ last.op = "update" /\ is_initialized(pre) /\ ~pre.c.read_only
    /\ Has(pre, last.key) /\ ~Gets(pre, last.key, last.obj)
    /\ last.out = "ok" /\ Gets(State, last.key, last.obj)
    /\ Cardinality(DOMAIN cat(State)) > 1

\* Setting read-only changed no result of contains or get.
SameReads ==
    \A k \in Keys :
        /\ contains(State, k).out = contains(pre, k).out
        /\ contains(State, k).ret = contains(pre, k).ret
        /\ \A d \in Defaults :
              /\ get(State, k, d).out = get(pre, k, d).out
              /\ get(State, k, d).ret = get(pre, k, d).ret

\* C4 as stated: on an initialized read-only cache, put, update and remove fail
\* with ReadOnly (TypeError) for every key and change nothing.
C4_AsStated ==
    (/\ last.op \in {"put", "update", "remove"}
     /\ is_initialized(pre) /\ pre.c.read_only)
    => last.out = "TypeError" /\ State = pre

\* C4: read-only enforcement.  On an initialized read-only cache, put fails
\* with ReadOnly (TypeError) for every key, whatever the active flag; update
\* and remove fail with ReadOnly when the cache is active and holds the key,
\* and otherwise update fails with KeyNotFound (KeyError) and remove is a
\* no-op; all three leave the cache and the directory unchanged.  contains and
\* get are not rejected and return what they returned before read-only was set.
C4_ReadOnly ==
    /\ (is_initialized(pre) /\ pre.c.read_only)
       => /\ last.op = "put" => last.out = "TypeError" /\ State = pre
          /\ last.op = "update" =>
                /\ last.out = IF Has(pre, last.key) THEN "TypeError" ELSE "KeyError"
                /\ State = pre
          /\ last.op = "remove" =>
                /\ last.out = IF Has(pre, last.key) THEN "TypeError" ELSE "ok"
                /\ State = pre
          /\ last.op \in {"contains", "get", "getitem"} => last.out # "TypeError"
    /\ (last.op = "set_read_only" /\ is_initialized(pre))
       => cache.read_only = last.flag /\ SameReads

C4_Witness ==
    /\ last.op = "remove" /\ is_initialized(pre) /\ pre.c.read_only
    /\ Has(pre, last.key) /\ last.out = "TypeError"
    /\ Gets(State, last.key, 1)

\* What get returns for each key once the cache is active.
View(S) ==
    LET A == activate(S).S
    IN  [k \in Keys |-> <<get(A, k, UNSPECIFIED).out, get(A, k, UNSPECIFIED).ret>>]

\* An initialize, directly or from clear(initialize=True).
Reinitializes == last.op = "initialize" \/ (last.op = "clear" /\ last.obj = 1)

\* While deactivated: contains is false and get is a miss for every key, and
\* what activate() will show is what was visible before deactivate().
Deactivated ==
    /\ (is_initialized(pre) /\ ~pre.c.active)
       => /\ last.op = "contains" => last.out = "ok" /\ ~last.truth
          /\ (last.op \in {"get", "getitem"} /\ last.default = UNSPECIFIED)
                => last.out = "KeyError"
          /\ (last.op = "get" /\ last.default # UNSPECIFIED)
                => last.out = "ok" /\ last.ret = last.default
          /\ (last.op # "activate" /\ ~Reinitializes)
                => ~cache.active /\ is_initialized(State) /\ View(State) = View(pre)
          /\ last.op = "activate"
                => /\ cache.active /\ cache.catalog = pre.c.catalog /\ disk = pre.d
                   /\ \A k \in Keys :
                         View(pre)[k] = <<get(State, k, UNSPECIFIED).out,
                                          get(State, k, UNSPECIFIED).ret>>
    /\ (is_initialized(pre) /\ last.op = "deactivate")
       => ~cache.active /\ View(State) = View(pre)

\* C5 as stated: the above, and while deactivated put(K, O) is a no-op: it
\* returns normally and writes nothing.
C5_AsStated ==
    /\ Deactivated
    /\ (is_initialized(pre) /\ ~pre.c.active /\ last.op = "put")
       => last.out = "ok" /\ State = pre

\* C5: deactivation.  While an initialized cache is deactivated, for every key
\* (also the keys stored in the directory) contains(K) is false, get(K) is a
\* miss (the default, or KeyError), and put(K, O) writes nothing: it is a
\* no-op on a writable cache and fails with ReadOnly (TypeError) on a
\* read-only one.  After activate(), without re-initialization, exactly the
\* keys visible before deactivate() are visible again, with the same values.
C5_Deactivation ==
    /\ Deactivated
    /\ (is_initialized(pre) /\ ~pre.c.active /\ last.op = "put")
       => /\ last.out = IF pre.c.read_only THEN "TypeError" ELSE "ok"
          /\ State = pre

C5_Witness ==
    /\ last.op = "put" /\ is_initialized(pre) /\ ~pre.c.active
    /\ ~pre.c.read_only /\ last.out = "ok"
    /\ last.key \in DOMAIN cat(pre)
    /\ key2path(last.key) \in DOMAIN disk.files
    /\ ~Has(State, last.key)

\* C6: miss behaviour.  For every key K that an initialized cache does not
\* hold, contains(K) is false, get(K) and cache[K] fail with KeyNotFound
\* (KeyError), get(K, default=D) returns D, and none of these calls changes
\* the cache or the directory.
C6_Miss ==
    (is_initialized(pre) /\ last.key \in Keys /\ ~Has(pre, last.key))
    => /\ last.op = "contains"
             => last.out = "ok" /\ ~last.truth /\ State = pre
       /\ (last.op \in {"get", "getitem"} /\ last.default = UNSPECIFIED)
             => last.out = "KeyError" /\ State = pre
       /\ (last.op = "get" /\ last.default # UNSPECIFIED)
             => last.out = "ok" /\ last.ret = last.default /\ State = pre

C6_Witness ==
    /\ last.op = "get" /\ last.default = UNSPECIFIED
    /\ is_initialized(pre) /\ pre.c.active /\ ~Has(pre, last.key)
    /\ DOMAIN cat(pre) # {}
    /\ last.out = "KeyError"

C8_UpdateAbsent ==
    (last.op = "update" /\ is_initialized(pre) /\ ~Has(pre, last.key))
    => /\ last.out = "KeyError"
       /\ State = pre
       /\ ~Has(State, last.key)

C8_Witness ==
    /\ last.op = "update" /\ is_initialized(pre)
    /\ pre.c.active /\ ~pre.c.read_only /\ ~Has(pre, last.key)
    /\ last.out = "KeyError"
    /\ key2path(last.key) \notin DOMAIN disk.files

\* A second instance constructed on the same directory and initialized.
SecondInstance(S) ==
    initialize([c |-> [catalog |-> NoCatalog, active |-> TRUE,
                       read_only |-> FALSE, auto_init |-> FALSE],
                d |-> S.d])

\* C9: after clear(force=true) on an initialized, active, non-empty cache,
\* contains(K) is false for every key, keys() is empty, get(K, default)
\* returns the default, no file remains in the directory, and a second
\* instance initialized afterwards on the same directory sees zero keys.
C9_ClearForce ==
    (/\ last.op = "clear" /\ last.flag /\ last.obj = None
     /\ is_initialized(pre) /\ pre.c.active /\ DOMAIN cat(pre) # {})
    => /\ last.out = "ok"
       /\ \A k \in Keys :
             /\ contains(State, k).out = "ok"
             /\ contains(State, k).ret = FALSE
             /\ get(State, k, None).out = "ok"
             /\ get(State, k, None).ret = None
       /\ keys(State).out = "ok"
       /\ keys(State).ret = {}
       /\ DOMAIN disk.files = {}
       /\ SecondInstance(State).out = "ok"
       /\ DOMAIN cat(SecondInstance(State).S) = {}

\* C10: clear() without force on an initialized, active, non-empty cache
\* fails with ConfirmationRequired (RuntimeError) and deletes nothing: the
\* cache and the directory are as before the call.
C10_ClearNeedsForce ==
    (/\ last.op = "clear" /\ ~last.flag
     /\ is_initialized(pre) /\ pre.c.active /\ DOMAIN cat(pre) # {})
    => last.out = "RuntimeError" /\ State = pre

C10_Witness ==
    /\ last.op = "clear" /\ ~last.flag
    /\ is_initialized(pre) /\ pre.c.active /\ DOMAIN cat(pre) # {}
    /\ last.out = "RuntimeError"
    /\ DOMAIN disk.files # {}

\* The second instance lists the keys of S and reads the same value for each.
Agree(S) ==
    LET T == SecondInstance(S)
    IN  /\ T.out = "ok"
        /\ keys(T.S).ret = keys(S).ret
        /\ \A k \in keys(S).ret :
              /\ get(T.S, k, UNSPECIFIED).out = get(S, k, UNSPECIFIED).out
              /\ get(T.S, k, UNSPECIFIED).ret = get(S, k, UNSPECIFIED).ret

\* C11: catalog rebuild.  After initialize, and after each successful put,
\* update or remove on an initialized active instance with which a second
\* instance agreed, a second instance initialized on the same directory has
\* exactly the keys of the first and get returns the same value for each.
C11_CatalogRebuild ==
    /\ (last.op = "initialize" /\ last.out = "ok" /\ cache.active)
       => Agree(State)
    /\ (/\ last.op \in {"put", "update", "remove"} /\ last.out = "ok"
        /\ is_initialized(pre) /\ pre.c.active /\ Agree(pre))
       => Agree(State)

\* The catalog has not been built and auto-initialization is off.
NotBuilt(S) == S.c.catalog = NoCatalog /\ ~S.c.auto_init

HoldsTruncated(S, k) ==
    /\ is_initialized(S) /\ Has(S, k)
    /\ cat(S)[k] \in DOMAIN S.d.files
    /\ S.d.files[cat(S)[k]] = Truncated

\* C13: self-healing read.  When get(K) finds K in the catalog and reading the
\* file hits the end of the data, K is removed from the catalog and the file
\* from the directory, and the call behaves as a miss: it returns the default
\* supplied, or fails with KeyNotFound (KeyError) when none was supplied.
C13_SelfHealing ==
    (last.op \in {"get", "getitem"} /\ HoldsTruncated(pre, last.key))
    => /\ last.key \notin DOMAIN cat(State)
       /\ cat(pre)[last.key] \notin DOMAIN disk.files
       /\ last.default = UNSPECIFIED => last.out = "KeyError"
       /\ last.default # UNSPECIFIED => last.out = "ok" /\ last.ret = last.default

\* The cache holds K and the file of K is in the directory.
Stores(S, k) ==
    is_initialized(S) /\ Has(S, k) /\ cat(S)[k] \in DOMAIN S.d.files

\* pop of a key the cache does not hold.
PopAbsent ==
    (last.op = "pop" /\ is_initialized(pre) /\ ~Has(pre, last.key))
    => /\ last.default # UNSPECIFIED
             => last.out = "ok" /\ last.ret = last.default /\ State = pre
       /\ last.default = UNSPECIFIED
             => last.out = "KeyError" /\ State = pre

\* C14 as stated: pop(K) on an initialized cache that stores K returns the
\* stored value, and afterwards contains(K) is false and the file is gone;
\* pop(K, default=D) of a key the cache does not hold returns D and changes
\* nothing, and without a default it fails with KeyNotFound (KeyError).
C14_AsStated ==
    /\ (last.op = "pop" /\ Stores(pre, last.key))
       => /\ last.out = "ok"
          /\ last.ret = pre.d.files[cat(pre)[last.key]]
          /\ ~Has(State, last.key)
          /\ cat(pre)[last.key] \notin DOMAIN disk.files
    /\ PopAbsent

\* C14: pop(K) on an initialized, writable cache that stores K returns the
\* stored value, and afterwards contains(K) is false and the file is gone;
\* pop(K, default=D) of a key the cache does not hold returns D and changes
\* nothing, and without a default it fails with KeyNotFound (KeyError).
C14_Pop ==
    /\ (last.op = "pop" /\ Stores(pre, last.key) /\ ~pre.c.read_only)
       => /\ last.out = "ok"
          /\ last.ret = pre.d.files[cat(pre)[last.key]]
          /\ ~Has(State, last.key)
          /\ cat(pre)[last.key] \notin DOMAIN disk.files
    /\ PopAbsent

C14_Witness ==
    /\ last.op = "pop" /\ Stores(pre, last.key) /\ ~pre.c.read_only
    /\ last.out = "ok" /\ last.ret \in Objects
    /\ ~Has(State, last.key)
    /\ DOMAIN cat(State) # {}

\* ------------------------------------------------- the MultiCache claims ----

\* Position i is the first (last) one of the caches cs that contains key k.
IsFirstWith(cs, i, k) ==
    m_contains(cs[i], k) /\ \A j \in 1..(i - 1) : ~m_contains(cs[j], k)

IsLastWith(cs, i, k) ==
    m_contains(cs[i], k) /\ \A j \in (i + 1)..Len(cs) : ~m_contains(cs[j], k)

\* Whether a get with this sync argument back-fills.
SyncOn(M, sync) == IF sync = <<>> THEN M.sync_all ELSE sync[1]

\* C15: get(K) of a MultiCache returns the value held by the first member in
\* priority order that contains K, whatever the later members hold; a
\* MultiCache built from the same list with left_to_right_priority=false
\* returns the value of the last member of the list that contains K.
C15_PriorityRead ==
    \A k \in MKeys, d \in MDefaults, sync \in SyncArgs :
        /\ \A i \in Members(multi) :
              IsFirstWith(multi.caches, i, k)
              => /\ mc_get(multi, k, d, sync).out = "ok"
                 /\ mc_get(multi, k, d, sync).ret = multi.caches[i].items[k].obj
        /\ LET M2 == MultiCache_init(multi.caches, FALSE, multi.sync_all,
                                     multi.active, multi.read_only)
           IN  \A i \in Members(multi) :
                  IsLastWith(multi.caches, i, k)
                  => /\ mc_get(M2, k, d, sync).out = "ok"
                     /\ mc_get(M2, k, d, sync).ret = multi.caches[i].items[k].obj

\* Two members contain the key with different values, the first member of
\* the list does not contain it, and get returns the earlier value.
C15_Witness ==
    \E k \in MKeys, i, j \in Members(multi) :
        /\ 1 < i /\ i < j
        /\ IsFirstWith(multi.caches, i, k)
        /\ m_contains(multi.caches[j], k)
        /\ multi.caches[i].items[k].obj # multi.caches[j].items[k].obj
        /\ mc_get(multi, k, UNSPECIFIED, <<>>).ret = multi.caches[i].items[k].obj

\* C16 as stated: when get(K) hits with sync enabled, every other writable
\* member that lacked K afterwards contains K and returns the value of the
\* member that was hit; read-only members are not written.
C16_AsStated ==
    \A k \in MKeys, d \in MDefaults, sync \in SyncArgs :
        LET r == mc_get(multi, k, d, sync)
        IN  (SyncOn(multi, sync) /\ mc_contains(multi, k))
            => /\ r.out = "ok"
               /\ \A i \in Members(multi) :
                     LET c == multi.caches[i]
                         c2 == r.M.caches[i]
                     IN  /\ (~c.read_only /\ ~m_contains(c, k))
                            => /\ m_contains(c2, k)
                               /\ m_get(c2, k).ret = r.ret
                         /\ c.read_only => c2 = c

\* C16: when get(K) hits with sync enabled, every other active writable
\* member that lacked K afterwards contains K and returns the value of the
\* member that was hit; read-only members are not written, and neither are
\* deactivated ones.
C16_SyncOnRead ==
    \A k \in MKeys, d \in MDefaults, sync \in SyncArgs :
        LET r == mc_get(multi, k, d, sync)
        IN  (SyncOn(multi, sync) /\ mc_contains(multi, k))
            => /\ r.out = "ok"
               /\ \A i \in Members(multi) :
                     LET c == multi.caches[i]
                         c2 == r.M.caches[i]
                     IN  /\ (c.active /\ ~c.read_only /\ ~m_contains(c, k))
                            => /\ m_contains(c2, k)
                               /\ m_get(c2, k).ret = r.ret
                               /\ \E h \in Members(multi) :
                                     /\ IsFirstWith(multi.caches, h, k)
                                     /\ r.ret = multi.caches[h].items[k].obj
                         /\ (c.read_only \/ ~c.active) => c2 = c

\* A read with sync that hits the last member fills two writable members
\* ahead of it, or fills one and leaves a read-only one alone.
C16_Witness ==
    \E k \in MKeys :
        LET r == mc_get(multi, k, UNSPECIFIED, <<TRUE>>)
        IN  /\ IsFirstWith(multi.caches, 3, k)
            /\ multi.caches[1].active /\ ~multi.caches[1].read_only
            /\ multi.caches[2].active /\ ~multi.caches[2].read_only
            /\ r.out = "ok"
            /\ m_contains(r.M.caches[1], k) /\ m_contains(r.M.caches[2], k)
            /\ m_get(r.M.caches[2], k).ret = multi.caches[3].items[k].obj

\* Cache c holds key k in its catalog and backend, active or not.
Holds(c, k) == k \in DOMAIN c.items

\* Position w is the first member that is not read-only.
FirstWritable(M, w) ==
    ~M.caches[w].read_only /\ \A j \in 1..(w - 1) : M.caches[j].read_only

\* Cache c2 is cache c with the item written under key k, and nothing else
\* changed.
WrittenLike(c, c2, k, item) ==
    c2 = [c EXCEPT !.items = [kk \in DOMAIN c.items \cup {k} |->
                                 IF kk = k THEN item ELSE c.items[kk]]]

\* C17 as stated: without sync_all a successful put(K, O, update=...) writes
\* to exactly one member, the first non-read-only member in priority order,
\* and every other member is unchanged.
C17_AsStated ==
    \A k \in MKeys, o \in Objects, u \in BOOLEAN :
        LET r == mc_put(multi, k, o, u, NoMeta)
        IN  (/\ ~multi.sync_all /\ r.out = "ok"
             /\ \E w \in Members(multi) : ~multi.caches[w].read_only)
            => \E w \in Members(multi) :
                  /\ FirstWritable(multi, w)
                  /\ m_contains(r.M.caches[w], k)
                  /\ r.M.caches[w].items[k].obj = o
                  /\ \A i \in Members(multi) \ {w} :
                        r.M.caches[i] = multi.caches[i]

\* C17: without sync_all a successful put(K, O, update=...) on a MultiCache
\* whose first non-read-only member in priority order is active writes O to
\* that member; if no other member contains K, every other member is
\* unchanged; if another member contains K, following non-read-only members
\* may be written with O too; read-only members and the members ahead of the
\* first non-read-only one are never changed.
C17_PutFirstWritable ==
    \A k \in MKeys, o \in Objects, u \in BOOLEAN :
        LET r == mc_put(multi, k, o, u, NoMeta)
        IN  \A w \in Members(multi) :
               (/\ ~multi.sync_all /\ r.out = "ok"
                /\ FirstWritable(multi, w) /\ multi.caches[w].active)
               => /\ m_contains(r.M.caches[w], k)
                  /\ r.M.caches[w].items[k].obj = o
                  /\ \A i \in Members(multi) \ {w} :
                        LET c == multi.caches[i]
                            c2 == r.M.caches[i]
                        IN  /\ c.read_only => c2 = c
                            /\ i < w => c2 = c
                            /\ \/ c2 = c
                               \/ /\ Holds(c2, k)
                                  /\ c2.items[k].obj = o
                                  /\ WrittenLike(c, c2, k, c2.items[k])
                  /\ (\A j \in Members(multi) \ {w} :
                         ~m_contains(multi.caches[j], k))
                     => \A i \in Members(multi) \ {w} :
                           r.M.caches[i] = multi.caches[i]

\* A put without sync_all that passes over a read-only first member, writes
\* the second member and leaves the third, writable and empty, alone.
C17_Witness ==
    \E k \in MKeys, o \in Objects :
        LET r == mc_put(multi, k, o, FALSE, NoMeta)
        IN  /\ ~multi.sync_all /\ r.out = "ok"
            /\ multi.caches[1].read_only
            /\ FirstWritable(multi, 2) /\ multi.caches[2].active
            /\ ~m_contains(multi.caches[2], k)
            /\ multi.caches[3].active /\ ~multi.caches[3].read_only
            /\ ~m_contains(multi.caches[3], k)
            /\ r.M.caches[2].items[k].obj = o
            /\ r.M.caches[3] = multi.caches[3]
            /\ r.M.caches[1] = multi.caches[1]

\* C18 as stated: with sync_all, put(K, O) of a key absent from every member
\* writes O to every non-read-only member: each of them then contains K with
\* value O, and check_meta_mismatches() reports no mismatch for K.
C18_AsStated ==
    \A k \in MKeys, o \in Objects :
        LET r == mc_put(multi, k, o, FALSE, NoMeta)
        IN  (/\ multi.sync_all
             /\ \A i \in Members(multi) : k \notin DOMAIN multi.caches[i].items)
            => /\ r.out = "ok"
               /\ \A i \in Members(multi) :
                     ~multi.caches[i].read_only
                     => /\ m_contains(r.M.caches[i], k)
                        /\ m_get(r.M.caches[i], k).ret = o
               /\ k \notin DOMAIN check_meta_mismatches(r.M, <<>>)

\* C18: with sync_all, put(K, O) of a key that no member contains, on a
\* MultiCache whose non-read-only members are all active, writes O to every
\* non-read-only member: each of them then contains K with value O, and
\* check_meta_mismatches() reports no mismatch for K.
C18_PutSyncAll ==
    \A k \in MKeys, o \in Objects, u \in BOOLEAN :
        LET r == mc_put(multi, k, o, u, NoMeta)
        IN  (/\ multi.sync_all
             /\ ~mc_contains(multi, k)
             /\ \A i \in Members(multi) :
                   ~multi.caches[i].read_only => multi.caches[i].active)
            => /\ r.out = "ok"
               /\ \A i \in Members(multi) :
                     /\ ~multi.caches[i].read_only
                        => /\ m_contains(r.M.caches[i], k)
                           /\ m_get(r.M.caches[i], k).ret = o
                     /\ multi.caches[i].read_only
                        => r.M.caches[i] = multi.caches[i]
               /\ k \notin DOMAIN check_meta_mismatches(r.M, <<>>)
               /\ k \notin DOMAIN check_meta_mismatches(r.M, <<k>>)

\* A put with sync_all into an active MultiCache whose first member is
\* read-only and whose other two members are active, writable and empty.
C18_Witness ==
    \E k \in MKeys, o \in Objects :
        LET r == mc_put(multi, k, o, FALSE, NoMeta)
        IN  /\ multi.sync_all /\ multi.active /\ ~mc_contains(multi, k)
            /\ multi.caches[1].read_only /\ multi.caches[1].active
            /\ multi.caches[2].active /\ ~multi.caches[2].read_only
            /\ multi.caches[3].active /\ ~multi.caches[3].read_only
            /\ r.out = "ok"
            /\ m_get(r.M.caches[2], k).ret = o
            /\ m_get(r.M.caches[3], k).ret = o
            /\ r.M.caches[2].items[k].meta = r.M.caches[3].items[k].meta
            /\ mc_keys(r.M) = {k}

\* C19 as stated: after remove(K) returns, no member holds K any more,
\* whatever sync_all is, and no later get(K) on the MultiCache or on a member
\* returns a surviving copy.
C19_AsStated ==
    \A k \in MKeys :
        LET r == mc_remove(multi, k)
        IN  r.out = "ok"
            => \A i \in Members(multi) : ~Holds(r.M.caches[i], k)

\* C19: after remove(K) returns, no member that was active at the call holds
\* K any more, whatever sync_all is, so get(K) on the MultiCache and on every
\* member misses; a deactivated member is not touched and keeps its copy.
C19_RemoveFanOut ==
    \A k \in MKeys :
        LET r == mc_remove(multi, k)
        IN  r.out = "ok"
            => /\ \A i \in Members(multi) :
                     /\ multi.caches[i].active => ~Holds(r.M.caches[i], k)
                     /\ ~multi.caches[i].active
                        => r.M.caches[i] = multi.caches[i]
                     /\ m_get(r.M.caches[i], k).out = "KeyError"
               /\ ~mc_contains(r.M, k)
               /\ mc_get(r.M, k, UNSPECIFIED, <<>>).out = "KeyError"

\* A remove of a key that two active writable members hold, with and
\* without sync_all.
C19_Witness ==
    \E k \in MKeys, i, j \in Members(multi) :
        /\ i < j
        /\ m_contains(multi.caches[i], k) /\ m_contains(multi.caches[j], k)
        /\ mc_remove(multi, k).out = "ok"
        /\ ~Holds(mc_remove(multi, k).M.caches[i], k)
        /\ ~Holds(mc_remove(multi, k).M.caches[j], k)

\* The value of the first member in priority order that contains key k.
FirstValue(M, k) ==
    LET h == CHOOSE i \in Members(M) : IsFirstWith(M.caches, i, k)
    IN  M.caches[h].items[k].obj

\* C20 as stated: after sync_now() returns without error, every member
\* contains every key that any member contained before the call, and a
\* member that lacked a key holds the value of the first member in priority
\* order that had it.
C20_AsStated ==
    \A order \in Orders(mc_keys(multi)) :
        LET r == sync_now(multi, order)
        IN  r.out = "ok"
            => \A k \in MKeys, i \in Members(multi) :
                  mc_contains(multi, k)
                  => /\ m_contains(r.M.caches[i], k)
                     /\ ~m_contains(multi.caches[i], k)
                        => m_get(r.M.caches[i], k).ret = FirstValue(multi, k)

\* C20: after sync_now() returns without error on a MultiCache whose own
\* active flag is set, every active member contains every key that any
\* member contained before the call, and an active member that lacked a key
\* holds the value of the first member in priority order that had it.
C20_SyncNow ==
    \A order \in Orders(mc_keys(multi)) :
        LET r == sync_now(multi, order)
        IN  (r.out = "ok" /\ multi.active)
            => \A k \in MKeys, i \in Members(multi) :
                  (mc_contains(multi, k) /\ multi.caches[i].active)
                  => /\ m_contains(r.M.caches[i], k)
                     /\ ~m_contains(multi.caches[i], k)
                        => m_get(r.M.caches[i], k).ret = FirstValue(multi, k)

\* A sync_now that fills the two active members ahead of the only member
\* that has the key.
C20_Witness ==
    \E k \in MKeys, order \in Orders(mc_keys(multi)) :
        LET r == sync_now(multi, order)
        IN  /\ multi.active /\ r.out = "ok"
            /\ IsFirstWith(multi.caches, 3, k)
            /\ multi.caches[1].active /\ multi.caches[2].active
            /\ m_get(r.M.caches[1], k).ret = multi.caches[3].items[k].obj
            /\ m_get(r.M.caches[2], k).ret = multi.caches[3].items[k].obj

\* Two members contain key k with differing metadata.
Conflict(M, k) ==
    \E i, j \in Members(M) :
        /\ m_contains(M.caches[i], k) /\ m_contains(M.caches[j], k)
        /\ M.caches[i].items[k].meta # M.caches[j].items[k].meta

\* C21: if a key K is held by two or more members with differing metadata,
\* sync_now() on an active MultiCache whose members are all active and
\* writable fails with RuntimeError and picks no winner: no member that
\* lacked K gets a copy and no member's copy of K is replaced.
C21_SyncNowConflict ==
    \A order \in Orders(mc_keys(multi)), k \in MKeys :
        LET r == sync_now(multi, order)
        IN  (/\ multi.active
             /\ \A i \in Members(multi) :
                   multi.caches[i].active /\ ~multi.caches[i].read_only
             /\ Conflict(multi, k))
            => /\ r.out = "RuntimeError"
               /\ \A i \in Members(multi) : r.M.caches[i] = multi.caches[i]

\* C22: whenever is_read_only() of the MultiCache is true (its own flag is
\* set, or every member is read-only), put fails with TypeError and no
\* member is modified.
C22_ReadOnlyPut ==
    \A k \in MKeys, o \in Objects, u \in BOOLEAN :
        LET r == mc_put(multi, k, o, u, NoMeta)
        IN  mc_is_read_only(multi)
            => /\ r.out = "TypeError"
               /\ r.M.caches = multi.caches

\* C23: put(K, O) without update fails with ValueError whenever some member
\* contains K, whichever member holds it and whatever sync_all is (here on
\* a MultiCache that is active and not read-only, with all members active).
C23_OverwriteProtection ==
    \A k \in MKeys, o \in Objects :
        (/\ mc_contains(multi, k)
         /\ mc_is_active(multi) /\ ~mc_is_read_only(multi)
         /\ \A i \in Members(multi) : multi.caches[i].active)
        => mc_put(multi, k, o, FALSE, NoMeta).out = "ValueError"

\* Every get of key k on M, whatever default and sync are given, returns o.
ReadsBack(M, k, o) ==
    \A d \in MDefaults, sync \in SyncArgs :
        mc_get(M, k, d, sync).out = "ok" /\ mc_get(M, k, d, sync).ret = o

\* The MultiCache is active and not read-only.
Usable(M) == mc_is_active(M) /\ ~mc_is_read_only(M)

\* The first non-read-only member is active, and no member ahead of it
\* contains key k.
WriteIsSeen(M, k) ==
    \E w \in Members(M) :
        /\ FirstWritable(M, w) /\ M.caches[w].active
        /\ \A j \in 1..(w - 1) : ~m_contains(M.caches[j], k)

\* C24 as stated: on a MultiCache that is active and not read-only, after a
\* successful put(K, O) of a new key, or a successful update(K, O) or
\* put(K, O, update=true) of an existing key, get(K) returns O, whatever the
\* flags and contents of the members.
C24_AsStated ==
    \A k \in MKeys, o \in Objects :
        LET new  == mc_put(multi, k, o, FALSE, NoMeta)
            upd  == mc_update(multi, k, o)
            over == mc_put(multi, k, o, TRUE, NoMeta)
        IN  Usable(multi)
            => /\ (~mc_contains(multi, k) /\ new.out = "ok")
                  => ReadsBack(new.M, k, o)
               /\ (mc_contains(multi, k) /\ upd.out = "ok")
                  => ReadsBack(upd.M, k, o)
               /\ (mc_contains(multi, k) /\ over.out = "ok")
                  => ReadsBack(over.M, k, o)

\* C24: on a MultiCache that is active and not read-only, whose first
\* non-read-only member is active and has no member ahead of it that
\* contains K, after a successful put(K, O) of a new key, or a successful
\* update(K, O) or put(K, O, update=true) of an existing key, get(K)
\* returns O.
C24_ReadYourWrite ==
    \A k \in MKeys, o \in Objects :
        LET new  == mc_put(multi, k, o, FALSE, NoMeta)
            upd  == mc_update(multi, k, o)
            over == mc_put(multi, k, o, TRUE, NoMeta)
        IN  (Usable(multi) /\ WriteIsSeen(multi, k))
            => /\ (~mc_contains(multi, k) /\ new.out = "ok")
                  => ReadsBack(new.M, k, o)
               /\ (mc_contains(multi, k) /\ upd.out = "ok")
                  => ReadsBack(upd.M, k, o)
               /\ (mc_contains(multi, k) /\ over.out = "ok")
                  => ReadsBack(over.M, k, o)

\* An update of a key that the second and third members hold with another
\* value, behind a read-only first member that lacks it, is read back.
C24_Witness ==
    \E k \in MKeys, o \in Objects :
        LET upd == mc_update(multi, k, o)
        IN  /\ Usable(multi)
            /\ multi.caches[1].read_only /\ multi.caches[1].active
            /\ ~m_contains(multi.caches[1], k)
            /\ FirstWritable(multi, 2)
            /\ m_contains(multi.caches[2], k) /\ m_contains(multi.caches[3], k)
            /\ multi.caches[2].items[k].obj # o
            /\ multi.caches[3].items[k].obj # o
            /\ upd.out = "ok"
            /\ ReadsBack(upd.M, k, o)

\* The position (counted from 1) at which add_cache with this index puts
\* the new member of a MultiCache that has n members.
AddedAt(n, index) ==
    IF index # NoIndex /\ index[1] >= 0
    THEN (IF index[1] < n THEN index[1] ELSE n) + 1
    ELSE n + 1

\* Sequence new is sequence old with one element put in at position p.
KeepsOrder(old, new, p) ==
    /\ Len(new) = Len(old) + 1
    /\ \A i \in 1..Len(old) : new[IF i < p THEN i ELSE i + 1] = old[i]

Dup(d) ==
    d.exists /\ \E p, q \in DOMAIN d.files : p # q /\ path2key(p) = path2key(q)

\* C26: a catalog build over a listing in which two distinct paths
\* normalize to the same key fails with KeyError and yields no catalog:
\* initialize leaves the catalog as it was, no other call but a clear that
\* empties the directory gets a catalog out of such a directory, and a
\* catalog that is built names for each key the one path that yields it.
\* S3Cache._build_catalog_dict over the same listing does the same.
C26_DuplicateKey ==
    /\ (last.op = "initialize" /\ Dup(pre.d))
       => /\ last.out = "KeyError"
          /\ cache.catalog = pre.c.catalog
    /\ (Dup(pre.d) /\ pre.c.catalog = NoCatalog /\ cache.catalog # NoCatalog)
       => last.op = "clear" /\ ~Dup(disk)
    /\ Dup(disk) => build_catalog(State).out = "KeyError"
    /\ build_catalog(State).out = "ok"
       => \A p \in (IF disk.exists THEN DOMAIN disk.files ELSE {}) :
             build_catalog(State).catalog[path2key(p)] = p
    /\ LET locs == DOMAIN disk.files
           b == s3_build_catalog_dict(locs)
       IN  IF \E p, q \in locs : p # q /\ s3_path2key(p) = s3_path2key(q)
           THEN b.out = "KeyError"
           ELSE b.out = "ok" /\ \A p \in locs : b.catalog[s3_path2key(p)] = p

\* initialize has failed over a directory that holds both a.pkl and a.
C26_Witness ==
    /\ last.op = "initialize" /\ last.out = "KeyError"
    /\ {Key("a", <<ext>>), Key("a", <<>>)} \subseteq DOMAIN pre.d.files
    /\ cache.catalog = NoCatalog
    /\ s3_build_catalog_dict(DOMAIN disk.files).out = "KeyError"

\* Instance B: it built its catalog on the directory as it was before the
\* last call of this instance, and now meets the directory as that call
\* left it.
StaleInstance == [c |-> SecondInstance(pre).S.c, d |-> disk]

\* B has key k in its catalog, and the last call of this instance, a remove
\* or a clear, has deleted the file of k.
LostFile(k) ==
    /\ last.op \in {"remove", "clear"} /\ last.out = "ok"
    /\ SecondInstance(pre).out = "ok"
    /\ k \in DOMAIN cat(SecondInstance(pre).S)
    /\ cat(SecondInstance(pre).S)[k] \notin DOMAIN disk.files

\* B still has k in its catalog, and its get fails with FileNotFoundError
\* whatever the default is.
StaleRead(k) ==
    /\ contains(StaleInstance, k).out = "ok"
    /\ contains(StaleInstance, k).ret = TRUE
    /\ contains(StaleInstance, k).S = StaleInstance
    /\ \A d \in Defaults :
          /\ get(StaleInstance, k, d).out = "FileNotFoundError"
          /\ get(StaleInstance, k, d).S = StaleInstance

Aligned(D) == {stem(p) : p \in glob(D, ext)} = {stem(p) : p \in glob(D, meta_ext)}

\* A fresh create() on the directory as it is now.
FreshCreate == LocalDiskCache_create(State, TRUE, FALSE)

\* C28: building the catalog of a local cache over a directory whose data
\* files and metadata files do not correspond one-to-one fails with
\* RuntimeError; and after any sequence of successful put, update and remove
\* calls of one instance a fresh create() on the directory does not fail.
C28_AlignedFiles ==
    /\ (disk.exists /\ ~Aligned(disk)) => FreshCreate.out = "RuntimeError"
    /\ (cache.catalog # NoCatalog /\ last.clean) => FreshCreate.out = "ok"

\* The state of the last call when its catalog has been consulted: the
\* catalog is built first by a cache that initializes itself.
AtWrite == check_initialized(pre).S

\* The backend write of the last put or update failed.
WriteFailed == last.op \in {"put", "update"} /\ last.out = "PicklingError"

\* C29 as stated: if the backend write of a put fails, the catalog is exactly
\* as before the call.
C29_AsStated == WriteFailed => cache.catalog = pre.c.catalog

\* C29: write-then-index.  If the backend write of a put or update fails,
\* the catalog is exactly as it was when the write began: as before the call,
\* or as the call's own auto-initialization built it from the backend.  A
\* key enters the catalog in a put or update only when the call succeeds,
\* and then its location holds the object of the call.
C29_WriteThenIndex ==
    last.op \in {"put", "update"} =>
        /\ WriteFailed => cache.catalog = AtWrite.c.catalog
        /\ (WriteFailed /\ is_initialized(pre)) => cache.catalog = pre.c.catalog
        /\ cache.catalog # NoCatalog =>
              \A k \in DOMAIN cat(State) :
                  (AtWrite.c.catalog = NoCatalog \/ k \notin DOMAIN cat(AtWrite)) =>
                      /\ last.out = "ok"
                      /\ k = last.key
                      /\ cat(State)[k] \in DOMAIN disk.files
                      /\ disk.files[cat(State)[k]] = last.obj

\* A put of a new key whose write failed: the file is there, emptied, and
\* the catalog has no entry for it.
C29_Witness ==
    /\ last.op = "put" /\ last.out = "PicklingError"
    /\ is_initialized(pre)
    /\ last.key \notin DOMAIN cat(State)
    /\ key2path(last.key) \in DOMAIN disk.files
    /\ \E k \in DOMAIN cat(State) : k # last.key

\* C30: delete-then-deindex.  In remove the file of K is deleted before K is
\* taken out of the catalog: if the delete fails, K is still in the catalog
\* after the failed call.  This is so for the calls of this instance, and for
\* a remove by a second instance B that built its catalog before the last
\* call of this instance.
C30_DeleteThenDeindex ==
    /\ (last.op = "remove" /\ last.out = "FileNotFoundError")
          => last.key \in DOMAIN cat(State)
    /\ SecondInstance(pre).out = "ok" =>
          \A k \in Keys :
              remove(StaleInstance, k).out = "FileNotFoundError"
                  => k \in DOMAIN cat(remove(StaleInstance, k).S)

\* C31: catalog-backend invariant.  In every state a single instance
\* reaches, each key of the catalog maps to a file that exists in the
\* directory.  (A backend operation of a single instance, os.remove or the
\* read of a file, can only fail on a catalog entry whose file is missing,
\* so the first state without the invariant comes before any such failure.)
C31_CatalogBackend ==
    cache.catalog # NoCatalog =>
        \A k \in DOMAIN cat(State) : cat(State)[k] \in DOMAIN disk.files

\* C32: key-to-location bijection.  In every reachable catalog two distinct
\* keys map to two distinct files, and the file of a key maps back to the
\* key, as it does with the mapping of an S3 cache that stores the same
\* keys; keys that end in the serializer's suffix included.
C32_KeyBijection ==
    cache.catalog # NoCatalog =>
        /\ \A k1, k2 \in DOMAIN cat(State) :
               k1 # k2 => cat(State)[k1] # cat(State)[k2]
        /\ \A k \in DOMAIN cat(State) :
               /\ path2key(cat(State)[k]) = k
               /\ s3_path2key(s3_key2path(k)) = k

\* C33: while a cache is inactive, contains, get, put, update, remove, pop,
\* keys and clear (not asked to initialize) touch nothing in the backend: the
\* directory and its files are as before the call, and the directory has not
\* been listed to build a catalog; also when the cache initializes itself
\* and is not initialized.
C33_InactiveNoBackend ==
    (/\ last.op \in {"contains", "get", "getitem", "put", "update", "remove",
                      "pop", "keys", "clear"}
     /\ last.op = "clear" => last.obj = None
     /\ ~pre.c.active)
    => /\ disk = pre.d
       /\ cache.catalog = pre.c.catalog

\* C34: a read-only cache is not mutated by its own operations.  A get,
\* contains, keys, pop, put, update, remove or clear (with or without force)
\* on a cache whose read-only flag is set leaves every file of the directory
\* as it was, and leaves a catalog that was built as it was.
C34_ReadOnlyFrame ==
    (/\ last.op \in {"contains", "get", "getitem", "put", "update", "remove",
                      "pop", "keys", "clear"}
     /\ pre.c.read_only)
    => /\ disk.files = pre.d.files
       /\ pre.c.catalog # NoCatalog => cache.catalog = pre.c.catalog

\* C35: a put without update never replaces a stored object.  After a
\* successful put(K, O) with update=false, every other key whose get
\* returned an object when the put began still returns that object.
C35_PutKeepsOthers ==
    (last.op = "put" /\ ~last.flag /\ last.out = "ok") =>
        \A k \in Keys \ {last.key} : \A o \in Objects :
            Gets(AtWrite, k, o) => Gets(State, k, o)

\* C36: in every reachable state of a MultiCache, contains(K) is true if
\* and only if K is in keys(); in particular contains(K) is false for every
\* key when is_active() is false.
C36_ContainsIffKeys ==
    \A k \in MKeys :
        /\ mc_contains(multi, k) <=> k \in mc_keys(multi)
        /\ ~mc_is_active(multi) => ~mc_contains(multi, k)

\* C37: back-filling on read keeps the members consistent.  If the members
\* that contain K agree on its metadata and get(K) with sync enabled copies
\* K into a member that lacked it, then check_meta_mismatches(K) is empty
\* afterwards.
C37_BackfillConsistent ==
    \A k \in MKeys, d \in MDefaults, sync \in SyncArgs :
        LET r == mc_get(multi, k, d, sync)
        IN  (/\ multi.active /\ SyncOn(multi, sync) /\ r.out = "ok"
             /\ DOMAIN check_meta_mismatches(multi, <<k>>) = {}
             /\ \E i \in Members(multi) :
                    ~m_contains(multi.caches[i], k) /\ m_contains(r.M.caches[i], k))
            => DOMAIN check_meta_mismatches(r.M, <<k>>) = {}

\* Member c2 is member c after a write of object o under key k, or c itself.
PutOrSame(c, c2, k, o) ==
    \/ c2 = c
    \/ /\ Holds(c2, k) /\ c2.items[k].obj = o
       /\ [c2 EXCEPT !.items = c.items] = c
       /\ \A h \in DOMAIN c.items \ {k} : Holds(c2, h) /\ c2.items[h] = c.items[h]
       /\ DOMAIN c2.items = DOMAIN c.items \cup {k}

\* Member c2 is member c after the removal of key k, or c itself.
RemovedOrSame(c, c2, k) ==
    \/ c2 = c
    \/ c2 = [c EXCEPT !.items = [h \in DOMAIN c.items \ {k} |-> c.items[h]]]

\* The outcomes of a member that refuses: KeyExists and ReadOnly.
Refusals == {"ValueError", "TypeError"}

\* C38 as stated: if put(K, O) or remove(K) of a MultiCache raises KeyExists
\* or ReadOnly from a member, no member was changed by the call.
C38_AsStated ==
    \A k \in MKeys :
        /\ \A o \in Objects, u \in BOOLEAN :
              mc_put(multi, k, o, u, NoMeta).out \in Refusals
              => mc_put(multi, k, o, u, NoMeta).M.caches = multi.caches
        /\ mc_remove(multi, k).out \in Refusals
              => mc_remove(multi, k).M.caches = multi.caches

\* C38: if put(K, O) or remove(K) of a MultiCache raises KeyExists or
\* ReadOnly from a member, that member and every member after it in priority
\* order are unchanged; a member before it is unchanged, or has been written
\* with O (put), or has had K removed (remove).
C38_FailingMutation ==
    \A k \in MKeys :
        /\ \A o \in Objects, u \in BOOLEAN :
              LET r == mc_put(multi, k, o, u, NoMeta)
              IN  r.out \in Refusals =>
                    \E j \in Members(multi) :
                        /\ r.out = "ValueError" /\ ~u
                        /\ m_contains(multi.caches[j], k)
                        /\ ~multi.caches[j].read_only
                        /\ \A i \in j..Len(multi.caches) :
                              r.M.caches[i] = multi.caches[i]
                        /\ \A i \in 1..(j - 1) :
                              PutOrSame(multi.caches[i], r.M.caches[i], k, o)
        /\ LET r == mc_remove(multi, k)
           IN  r.out \in Refusals =>
                 \E j \in Members(multi) :
                     /\ r.out = "TypeError"
                     /\ m_contains(multi.caches[j], k)
                     /\ multi.caches[j].read_only
                     /\ \A i \in j..Len(multi.caches) :
                           r.M.caches[i] = multi.caches[i]
                     /\ \A i \in 1..(j - 1) :
                           RemovedOrSame(multi.caches[i], r.M.caches[i], k)

\* A put that wrote the first member before the second refused it, and a
\* remove that emptied the second member before the third refused it.
C38_Witness ==
    \E k \in MKeys, o \in Objects :
        /\ mc_put(multi, k, o, FALSE, NoMeta).out = "ValueError"
        /\ ~Holds(multi.caches[1], k)
        /\ Holds(mc_put(multi, k, o, FALSE, NoMeta).M.caches[1], k)
        /\ mc_remove(multi, k).out = "TypeError"
        /\ Holds(multi.caches[2], k)
        /\ ~Holds(mc_remove(multi, k).M.caches[2], k)
        /\ mc_remove(multi, k).M.caches[3] = multi.caches[3]

\* C39: sync_now() only fills gaps.  Every key that a member held before
\* the call it holds afterwards with the same value and metadata, and the
\* member's flags are as before, whether sync_now returns or raises.
C39_SyncFillsGaps ==
    \A order \in Orders(mc_keys(multi)) :
        LET r == sync_now(multi, order)
        IN  \A i \in Members(multi) :
                /\ r.M.caches[i].active = multi.caches[i].active
                /\ r.M.caches[i].read_only = multi.caches[i].read_only
                /\ \A k \in MKeys :
                      Holds(multi.caches[i], k)
                      => /\ Holds(r.M.caches[i], k)
                         /\ r.M.caches[i].items[k] = multi.caches[i].items[k]

\* A sync_now that filled the first member with the copy of the second and
\* then failed on the differing copy of the third: both copies are as before.
C39_Witness ==
    \E order \in Orders(mc_keys(multi)) : \E k \in MKeys :
        LET r == sync_now(multi, order)
        IN  /\ r.out = "RuntimeError"
            /\ ~Holds(multi.caches[1], k) /\ Holds(r.M.caches[1], k)
            /\ Holds(multi.caches[2], k) /\ Holds(multi.caches[3], k)
            /\ multi.caches[2].items[k] # multi.caches[3].items[k]
            /\ r.M.caches[2] = multi.caches[2]
            /\ r.M.caches[3] = multi.caches[3]

\* The MultiCache after deactivate() followed by activate().
Reactivated == mc_activate(mc_deactivate(multi).M).M

\* C40 as stated: deactivate() followed by activate() leaves every member
\* with the active flag it had before, a member that was deactivated
\* individually staying inactive, and leaves all catalogs unchanged.
C40_AsStated ==
    \A i \in Members(multi) :
        /\ Reactivated.caches[i].active = multi.caches[i].active
        /\ Reactivated.caches[i].items = multi.caches[i].items

\* C40: deactivate() followed by activate() leaves the MultiCache and every
\* member active, a member that was deactivated individually included;
\* a member that was active is as before, and all catalogs and read-only
\* flags are unchanged.
C40_Reactivate ==
    /\ Reactivated.active
    /\ Len(Reactivated.caches) = Len(multi.caches)
    /\ \A i \in Members(multi) :
          /\ Reactivated.caches[i].active
          /\ Reactivated.caches[i] = [multi.caches[i] EXCEPT !.active = TRUE]
          /\ multi.caches[i].active => Reactivated.caches[i] = multi.caches[i]

\* A member that was deactivated on its own while it held a key, next to an
\* active one: after the round trip it is active and holds the same key.
C40_Witness ==
    \E i, j \in Members(multi) : \E k \in MKeys :
        /\ multi.active
        /\ ~multi.caches[i].active /\ Holds(multi.caches[i], k)
        /\ multi.caches[j].active
        /\ m_contains(Reactivated.caches[i], k)
        /\ Reactivated.caches[i].items = multi.caches[i].items

====
